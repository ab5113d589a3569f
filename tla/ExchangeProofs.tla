--------------------------- MODULE ExchangeProofs ---------------------------
(***************************************************************************)
(* Proofs about Exchange for any clients, feed, clock and limits: the      *)
(* three records of what rests agree, a client that is still in its        *)
(* session was told of every share of its orders, once, the two ends of a  *)
(* connection count the same messages, and a peer in time is not given up. *)
(*                                                                         *)
(* The invariant: the matcher's records are sound and numbered in order    *)
(* (RecordsOK), the book holds one entry for each order that rests, of the *)
(* size its record says (BookOK), the gateway's tokens, live set and       *)
(* position are what the records make them (GatewayOK), what a client was  *)
(* told is what its orders' records say until its session ends (ToldOK),   *)
(* and no more orders are under way than there are references (Asked).     *)
(* The counting needs a second one on top of it, SInv, further down: what  *)
(* is numbered is heard, on the wire or queued (Balance), and a server     *)
(* nobody has reached has said nothing (Fresh).  A third, PInv, follows a  *)
(* punctual connection through its four stages (Prompt).                   *)
(***************************************************************************)
EXTENDS Exchange, SequenceTheorems, FiniteFacts, TLAPS

Early == {"None", "AwaitingLogin", "LoginReceived"}
Sessions ==
  [state : Early \union {"LoggedIn"} \union TerminalStates, sent : Nat, heard : Nat, seq : Nat]

Working == {"Accepted", "PartiallyFilled"}
OrderStates == Working \union {"None", "Filled", "Cancelled", "Rejected"}
Records == [state : OrderStates, side : Sides, filled : Int, resting : Nat, cancelled : Int]
RecordsOK(ords) ==
  /\ ords \in [Refs -> Records]
  /\ \A r \in Refs : ords[r].resting > 0 <=> ords[r].state \in Working

IssuedIn(ords) == {r \in Refs : ords[r].state /= "None"}
InOrder(ords) == IssuedIn(ords) = 1..Cardinality(IssuedIn(ords))

EntryOK(e) ==
  /\ e = [ref |-> e.ref, side |-> e.side, price |-> e.price, shares |-> e.shares,
          place |-> e.place]
  /\ e.ref \in Refs \union History /\ e.shares \in Nat \ {0}

\* A book bk when the matcher's records are ords and the feed's account pst.
BookOK(bk, ords, pst) ==
  /\ IsFiniteSet(bk)
  /\ \A e \in bk : /\ EntryOK(e)
                   /\ e.ref \in Refs => e.shares = ords[e.ref].resting
                   /\ e.ref \in History => pst[e.ref] >= 0
  /\ \A e, f \in bk : e.ref = f.ref => e = f
  /\ \A r \in Refs : ords[r].resting > 0 => \E e \in bk : e.ref = r

\* What the order of token t has traded, signed.
Traded(token, ords, t) ==
  IF token[t] = 0 THEN 0 ELSE Signed(ords[token[t]].side, ords[token[t]].filled)
Held(token, ords) == SumFunctionOnSet([t \in Tokens |-> Traded(token, ords, t)], Tokens)

TokensOK(token, ords) ==
  /\ token \in [Tokens -> 0..MaxRefs]
  /\ \A t \in Tokens : token[t] /= 0 => ords[token[t]].state /= "None"
  /\ \A t, u \in Tokens : token[t] = token[u] /\ token[t] /= 0 => t = u

GatewayOK(g, ords) ==
  /\ g = [token |-> g.token, live |-> g.live, position |-> g.position,
          flattened |-> g.flattened]
  /\ TokensOK(g.token, ords)
  /\ g.live = {r \in Ours(g) : ~Done(ords[r].state)}
  /\ g.position = Held(g.token, ords)

ToldAll(tld, g, ords) ==
  /\ DOMAIN tld = Tokens /\ tld = [t \in Tokens |-> tld[t]]
  /\ \A t \in Tokens :
       tld[t] = IF g.token[t] = 0 THEN Silence
                ELSE [executed |-> ords[g.token[t]].filled,
                      cancelled |-> ords[g.token[t]].cancelled]
ToldOK(state, tld, g, ords) ==
  /\ state \in Early => \A t \in Tokens : g.token[t] = 0
  /\ state \in Early \union {"LoggedIn"} => ToldAll(tld, g, ords)

\* The market side: everything but the told.
Core(g, ords, bk, pst) ==
  /\ RecordsOK(ords) /\ InOrder(ords) /\ BookOK(bk, ords, pst) /\ GatewayOK(g, ords)

MarketOK ==
  /\ srv \in Sessions /\ past \in [History -> Int]
  /\ Core(gw, orders, book, past) /\ mirror = book
  /\ ToldOK(srv.state, told, gw, orders)

-----------------------------------------------------------------------------
(* The frames on their way.                                                *)

\* What is not an order message: the login, heartbeats, and a client's last.
Plain == [type : {"L", "R"} \union (UNION {Scenarios[name].last : name \in DOMAIN Scenarios})]
Enters == [type : {"U"}, ouch : {"enter"}, token : Tokens, order : OrderSet]
Replaces == [type : {"U"}, ouch : {"replace"}, token : Tokens, fresh : Tokens, order : OrderSet]
Cancels == [type : {"U"}, ouch : {"cancel"}, token : Tokens]
Orders == Enters \union Replaces
Frames == Plain \union Orders \union Cancels

FramesOK ==
  /\ scenario \in DOMAIN Scenarios
  /\ chunk \in Seq(Frames) /\ toServer \in [Connections -> Seq(Frames)]
  /\ conn \in 0..2
  /\ Asked <= S.entered

IInv == MarketOK /\ FramesOK

-----------------------------------------------------------------------------
(* Sums of shares.                                                         *)

LEMMA BoundFacts ==
  /\ MaxRefs \in Nat /\ MaxHistory \in Nat /\ MaxTokens \in Nat
  /\ Refs \subseteq Nat \ {0} /\ History \subseteq Nat \ {0} /\ Refs \intersect History = {}
  /\ 0 \notin Refs /\ 0 \notin History
  /\ IsFiniteSet(Tokens) /\ IsFiniteSet(Refs)
<1>1. MaxRefs \in Nat /\ MaxHistory \in Nat /\ MaxTokens \in Nat
  BY BoundsAssumption
<1>2. /\ Refs \subseteq Nat \ {0} /\ History \subseteq Nat \ {0} /\ Refs \intersect History = {}
      /\ 0 \notin Refs /\ 0 \notin History
  BY <1>1 DEF Refs, History
<1>3. IsFiniteSet(Tokens) /\ IsFiniteSet(Refs)
  BY <1>1, FS_Interval DEF Tokens, Refs
<1> QED BY <1>1, <1>2, <1>3

LEMMA SharesUnfolded ==
  ASSUME NEW X
  PROVE  Shares(X) = SumFunctionOnSet([x \in X |-> x.shares], X)
<1> DEFINE f == [x \in X |-> x.shares]
<1>1. DOMAIN f = X
  OBVIOUS
<1>2. SumFunction(f) = SumFunctionOnSet(f, DOMAIN f)
  BY DEF SumFunction
<1> HIDE DEF f
<1>3. SumFunction(f) = SumFunctionOnSet(f, X)
  BY <1>1, <1>2
<1> QED BY <1>3 DEF Shares, f

LEMMA SharesFacts ==
  ASSUME NEW X, IsFiniteSet(X), \A x \in X : x.shares \in Nat
  PROVE  /\ Shares(X) \in Nat
         /\ X = {} => Shares(X) = 0
         /\ \A x \in X : x.shares <= Shares(X)
         /\ \A x : X = {x} => Shares(X) = x.shares
<1> DEFINE f == [x \in X |-> x.shares]
<1>1. Shares(X) = SumFunctionOnSet(f, X)
  BY SharesUnfolded
<1>2. \A x \in X : f[x] = x.shares /\ f[x] \in Nat /\ f[x] \in Int
  OBVIOUS
<1> HIDE DEF f
<1>3. SumFunctionOnSet(f, X) \in Nat
  BY <1>2, SumType
<1>4. X = {} => SumFunctionOnSet(f, X) = 0
  BY SumEmpty
<1>5. \A x \in X : f[x] <= SumFunctionOnSet(f, X)
  BY <1>2, SumBounds
<1>6. ASSUME NEW x, X = {x} PROVE SumFunctionOnSet(f, X) = f[x]
  <2>1. x \in X /\ f[x] \in Int /\ \A y \in X \ {x} : f[y] = 0
    BY <1>2, <1>6
  <2> QED BY <2>1, SumOne
<1> QED BY <1>1, <1>2, <1>3, <1>4, <1>5, <1>6

-----------------------------------------------------------------------------
(* What trades.                                                            *)

\* Fills of orders in the book, by one taker, each order filled once and for
\* no more than it holds, if it is the engine's.
FillsOK(fills, bk, taker) ==
  /\ IsFiniteSet(fills)
  /\ \A f \in fills :
       /\ f.taker = taker /\ f.shares \in Nat \ {0}
       /\ \E e \in bk : e.ref = f.maker /\ (e.ref \in Refs => f.shares <= e.shares)
  /\ \A f, g \in fills : f.maker = g.maker => f = g

LEMMA MinOfTwo ==
  ASSUME NEW a \in Int, NEW b \in Int
  PROVE  Min({a, b}) = IF a <= b THEN a ELSE b
<1>1. CASE a <= b
  <2>1. \A x \in {a, b} : (\A y \in {a, b} : x <= y) => x = a
    BY <1>1
  <2>2. a \in {a, b} /\ \A y \in {a, b} : a <= y
    BY <1>1
  <2> QED BY <1>1, <2>1, <2>2 DEF Min
<1>2. CASE ~(a <= b)
  <2>1. \A x \in {a, b} : (\A y \in {a, b} : x <= y) => x = b
    BY <1>2
  <2>2. b \in {a, b} /\ \A y \in {a, b} : b <= y
    BY <1>2
  <2> QED BY <1>2, <2>1, <2>2 DEF Min
<1> QED BY <1>1, <1>2

\* The fills by one taker from part of the book, when what each order gives is
\* between nothing and all it holds.
LEMMA FillsFrom ==
  ASSUME NEW ords, NEW pst, NEW bk, BookOK(bk, ords, pst), NEW R \in SUBSET bk,
         NEW taker, NEW take, \A e \in R : take[e] \in 0..e.shares,
         NEW fills, fills = {Fill(taker, e, take[e]) : e \in {f \in R : take[f] > 0}}
  PROVE  FillsOK(fills, bk, taker)
<1> DEFINE P == {f \in R : take[f] > 0}
           g == [e \in P |-> Fill(taker, e, take[e])]
<1>1. IsFiniteSet(P)
  <2>1. IsFiniteSet(bk) /\ P \in SUBSET bk
    BY DEF BookOK
  <2> QED BY <2>1, FS_Subset
<1>2. fills = {g[e] : e \in P}
  OBVIOUS
<1>3. IsFiniteSet(fills)
  <2> HIDE DEF P, g
  <2>1. IsFiniteSet({g[x] : x \in P})
    BY <1>1, ImageFinite
  <2> QED BY <1>2, <2>1, Zenon
<1>4. \A e \in P : /\ e \in bk /\ EntryOK(e) /\ take[e] \in Nat \ {0} /\ take[e] <= e.shares
                   /\ e.shares \in Nat
  BY DEF BookOK, EntryOK
<1>5. \A f \in fills : \E e \in P : f = Fill(taker, e, take[e])
  OBVIOUS
<1> HIDE DEF P
<1>6. \A f \in fills :
       /\ f.taker = taker /\ f.shares \in Nat \ {0}
       /\ \E e \in bk : e.ref = f.maker /\ (e.ref \in Refs => f.shares <= e.shares)
  <2> SUFFICES ASSUME NEW f \in fills
               PROVE  /\ f.taker = taker /\ f.shares \in Nat \ {0}
                      /\ \E e \in bk : e.ref = f.maker /\ (e.ref \in Refs => f.shares <= e.shares)
    OBVIOUS
  <2>1. PICK e \in P : f = Fill(taker, e, take[e])
    BY <1>5
  <2>2. f.taker = taker /\ f.maker = e.ref /\ f.shares = take[e]
    BY <2>1 DEF Fill
  <2> QED BY <1>4, <2>1, <2>2
<1>7. ASSUME NEW f \in fills, NEW h \in fills, f.maker = h.maker PROVE f = h
  <2>1. PICK d \in P : f = Fill(taker, d, take[d])
    BY <1>5
  <2>2. PICK e \in P : h = Fill(taker, e, take[e])
    BY <1>5
  <2>3. d.ref = e.ref
    BY <1>7, <2>1, <2>2 DEF Fill
  <2>4. d = e
    BY <1>4, <2>3 DEF BookOK
  <2> QED BY <2>1, <2>2, <2>4
<1> QED BY <1>3, <1>6, <1>7 DEF FillsOK

LEMMA FillsFacts ==
  ASSUME NEW ords, NEW pst, NEW bk, BookOK(bk, ords, pst), NEW ref, NEW order \in OrderSet
  PROVE  FillsOK(Fills(bk, ref, order), bk, ref)
<1> DEFINE R == Reached(bk, order)
           take == [e \in R |-> Taken(bk, order, e)]
<1>1. R \in SUBSET bk /\ IsFiniteSet(bk) /\ order.shares \in Nat
  BY DEF Reached, BookOK, OrderSet
<1>2. ASSUME NEW e \in R PROVE take[e] \in 0..e.shares
  <2> DEFINE A == {f \in R : Before(f, e)}
             ahead == Shares(A)
  <2>1. e.shares \in Nat /\ \A f \in A : f.shares \in Nat
    BY <1>1 DEF BookOK, EntryOK
  <2>2. IsFiniteSet(A)
    <3>1. A \in SUBSET bk
      BY <1>1
    <3> QED BY <1>1, <3>1, FS_Subset
  <2>3. ahead \in Nat
    <3> HIDE DEF A
    <3> QED BY <2>1, <2>2, SharesFacts
  <2>4. take[e] = IF ahead >= order.shares THEN 0 ELSE Min({e.shares, order.shares - ahead})
    BY DEF Taken
  <2> HIDE DEF A, ahead, take
  <2>5. CASE ahead >= order.shares
    BY <2>1, <2>4, <2>5
  <2>6. CASE ~(ahead >= order.shares)
    <3> DEFINE x == order.shares - ahead
    <3>1. x \in Nat
      BY <1>1, <2>3, <2>6
    <3> HIDE DEF x
    <3>2. Min({e.shares, x}) \in 0..e.shares
      BY <2>1, <3>1, MinOfTwo
    <3> QED BY <2>4, <2>6, <3>2 DEF x
  <2> QED BY <2>5, <2>6
<1>3. Fills(bk, ref, order) = {Fill(ref, e, take[e]) : e \in {f \in R : take[f] > 0}}
  <2>1. \A e \in R : Fill(ref, e, take[e]).shares = take[e]
    BY DEF Fill
  <2>2. Fills(bk, ref, order) =
          {fill \in {Fill(ref, e, take[e]) : e \in R} : fill.shares > 0}
    BY DEF Fills
  <2> HIDE DEF R, take
  <2> QED BY <2>1, <2>2
<1> HIDE DEF R, take
<1> QED BY <1>1, <1>2, <1>3, FillsFrom

\* What the fills take from order r.
Paid(fills, r) == Shares({f \in fills : f.maker = r})

LEMMA PaidFacts ==
  ASSUME NEW fills, NEW bk, NEW taker, FillsOK(fills, bk, taker), NEW r
  PROVE  /\ Paid(fills, r) \in Nat
         /\ Paid(fills, r) = 0 <=> {f \in fills : f.maker = r} = {}
         /\ \A f \in fills : f.maker = r => Paid(fills, r) = f.shares
<1> DEFINE A == {f \in fills : f.maker = r}
<1>1. IsFiniteSet(A) /\ \A f \in A : f.shares \in Nat \ {0}
  <2>1. A \in SUBSET fills /\ IsFiniteSet(fills)
    BY DEF FillsOK
  <2> QED BY <2>1, FS_Subset DEF FillsOK
<1>2. \A f \in A : A = {f}
  BY DEF FillsOK
<1>3. \A f \in fills : f.maker = r => f \in A
  OBVIOUS
<1>4. Paid(fills, r) = Shares(A)
  BY DEF Paid
<1> HIDE DEF A
<1>5. /\ Shares(A) \in Nat /\ (A = {} => Shares(A) = 0)
      /\ \A f \in A : Shares(A) = f.shares
  BY <1>1, <1>2, SharesFacts
<1>6. A = {} <=> Shares(A) = 0
  BY <1>1, <1>5
<1> QED BY <1>3, <1>4, <1>5, <1>6 DEF A

LEMMA MakersPaidFacts ==
  ASSUME NEW ords, RecordsOK(ords), NEW pst, NEW bk, BookOK(bk, ords, pst),
         NEW fills, NEW taker, FillsOK(fills, bk, taker)
  PROVE  /\ RecordsOK(MakersPaid(ords, fills))
         /\ IssuedIn(MakersPaid(ords, fills)) = IssuedIn(ords)
         /\ \A r \in Refs :
              LET m == MakersPaid(ords, fills)[r]
              IN  /\ Paid(fills, r) \in 0..ords[r].resting
                  /\ m.side = ords[r].side /\ m.cancelled = ords[r].cancelled
                  /\ m.filled = ords[r].filled + Paid(fills, r)
                  /\ m.resting = ords[r].resting - Paid(fills, r)
                  /\ Paid(fills, r) = 0 => m = ords[r]
                  /\ Paid(fills, r) > 0 =>
                       /\ ords[r].state \in Working
                       /\ m.state \in Working \union {"Filled"}
<1> DEFINE M == MakersPaid(ords, fills)
<1>1. \A r \in Refs : M[r] = IF {f \in fills : f.maker = r} = {} THEN ords[r]
                            ELSE Reduced1(ords[r], Paid(fills, r))
  BY DEF MakersPaid, Paid
<1>2. M = [r \in Refs |-> M[r]]
  BY DEF MakersPaid
<1> HIDE DEF M
<1>3. ASSUME NEW r \in Refs
      PROVE  /\ Paid(fills, r) \in 0..ords[r].resting
             /\ M[r] \in Records /\ (M[r].resting > 0 <=> M[r].state \in Working)
             /\ M[r].side = ords[r].side /\ M[r].cancelled = ords[r].cancelled
             /\ M[r].filled = ords[r].filled + Paid(fills, r)
             /\ M[r].resting = ords[r].resting - Paid(fills, r)
             /\ M[r].state = "None" <=> ords[r].state = "None"
             /\ Paid(fills, r) = 0 => M[r] = ords[r]
             /\ Paid(fills, r) > 0 =>
                  /\ ords[r].state \in Working
                  /\ M[r].state \in Working \union {"Filled"}
  <2> DEFINE n == Paid(fills, r)
             m == ords[r]
  <2>1. /\ m \in Records /\ (m.resting > 0 <=> m.state \in Working)
        /\ m.filled \in Int /\ m.resting \in Nat /\ m.state \in OrderStates
    BY DEF RecordsOK, Records
  <2>2. n \in Nat /\ (n = 0 <=> {f \in fills : f.maker = r} = {})
    BY PaidFacts
  <2>3. CASE n = 0
    <3>1. M[r] = m
      BY <1>1, <2>2, <2>3
    <3> HIDE DEF m, n
    <3> QED BY <2>1, <2>2, <2>3, <3>1 DEF m, n
  <2>4. CASE n /= 0
    <3>1. PICK f \in fills : f.maker = r
      BY <2>2, <2>4
    <3>2. n = f.shares
      BY <3>1, PaidFacts
    <3>3. f.shares <= m.resting
      BY <3>1, BoundFacts DEF FillsOK, BookOK
    <3>4. M[r] = Reduced1(m, n)
      BY <1>1, <2>2, <2>4
    <3> HIDE DEF n, m
    <3>5. n \in 1..m.resting
      BY <2>1, <2>2, <2>4, <3>2, <3>3
    <3>6. /\ M[r].side = m.side /\ M[r].cancelled = m.cancelled
          /\ M[r].filled = m.filled + n /\ M[r].resting = m.resting - n
          /\ M[r].state = IF m.resting = n THEN "Filled" ELSE "PartiallyFilled"
      BY <3>4, <2>1 DEF Reduced1, Records
    <3>7. M[r] \in Records
      <4> DEFINE a == m.filled + n
                 b == m.resting - n
                 t == IF m.resting = n THEN "Filled" ELSE "PartiallyFilled"
      <4>1. a \in Int /\ b \in Nat
        BY <2>1, <3>5
      <4>2. t \in OrderStates
        BY DEF OrderStates, Working
      <4>3. M[r] = [m EXCEPT !.filled = a, !.resting = b, !.state = t]
        BY <3>4, <2>1 DEF Reduced1, Records
      <4> HIDE DEF a, b, t
      <4> QED BY <4>1, <4>2, <4>3, <2>1 DEF Records
    <3>8. M[r].resting > 0 <=> M[r].state \in Working
      <4>1. CASE m.resting = n
        BY <2>1, <3>5, <3>6, <4>1 DEF Working
      <4>2. CASE m.resting /= n
        BY <2>1, <3>5, <3>6, <4>2 DEF Working
      <4> QED BY <4>1, <4>2
    <3>9. m.state \in Working
      BY <2>1, <3>5
    <3>10. M[r].state \in Working \union {"Filled"}
      BY <3>6 DEF Working
    <3>11. M[r].state /= "None" /\ m.state /= "None"
      BY <3>9, <3>10 DEF Working
    <3>12. n \in 0..m.resting
      BY <3>5, <2>1
    <3> QED BY <2>4, <3>6, <3>7, <3>8, <3>9, <3>10, <3>11, <3>12 DEF n, m
  <2> QED BY <2>3, <2>4
<1>4. RecordsOK(M)
  BY <1>2, <1>3 DEF RecordsOK
<1>5. IssuedIn(M) = IssuedIn(ords)
  BY <1>3 DEF IssuedIn
<1> QED BY <1>3, <1>4, <1>5 DEF M

LEMMA ExecutedKeeps ==
  ASSUME NEW ords, RecordsOK(ords), NEW pst, NEW bk, BookOK(bk, ords, pst),
         NEW fills, NEW taker, FillsOK(fills, bk, taker)
  PROVE  /\ BookOK(Executed(bk, fills), MakersPaid(ords, fills), pst)
         /\ \A e \in Executed(bk, fills) : \E d \in bk : d.ref = e.ref
<1> DEFINE X == Executed(bk, fills)
           M == MakersPaid(ords, fills)
           K == {e \in bk : e.shares > Paid(fills, e.ref)}
           g == [e \in K |-> [e EXCEPT !.shares = e.shares - Paid(fills, e.ref)]]
<1>1. X = {g[e] : e \in K}
  BY DEF Executed, Paid
<1>2. IsFiniteSet(X)
  <2>1. K \in SUBSET bk /\ IsFiniteSet(bk)
    BY DEF BookOK
  <2>2. IsFiniteSet(K)
    BY <2>1, FS_Subset
  <2> HIDE DEF K, g
  <2>3. IsFiniteSet({g[x] : x \in K})
    BY <2>2, ImageFinite
  <2> QED BY <1>1, <2>3, Zenon
<1>3. \A e \in K : /\ e \in bk /\ EntryOK(e) /\ e.shares \in Nat \ {0}
                   /\ Paid(fills, e.ref) \in Nat /\ e.shares > Paid(fills, e.ref)
  BY PaidFacts DEF BookOK, EntryOK
<1>4. \A e \in K : /\ EntryOK(g[e]) /\ g[e].ref = e.ref
                   /\ g[e].shares = e.shares - Paid(fills, e.ref)
  <2> SUFFICES ASSUME NEW e \in K
               PROVE  /\ EntryOK(g[e]) /\ g[e].ref = e.ref
                      /\ g[e].shares = e.shares - Paid(fills, e.ref)
    OBVIOUS
  <2> DEFINE n == e.shares - Paid(fills, e.ref)
  <2>1. EntryOK(e) /\ n \in Nat \ {0}
    BY <1>3
  <2>2. g[e] = [e EXCEPT !.shares = n]
    OBVIOUS
  <2> HIDE DEF n, g
  <2>3. g[e] = [ref |-> e.ref, side |-> e.side, price |-> e.price, shares |-> n,
                place |-> e.place]
    BY <2>1, <2>2 DEF EntryOK
  <2> QED BY <2>1, <2>3 DEF EntryOK, n
<1>5. \A r \in Refs : /\ Paid(fills, r) \in 0..ords[r].resting
                      /\ M[r].resting = ords[r].resting - Paid(fills, r)
                      /\ ords[r].resting \in Nat
  BY MakersPaidFacts DEF RecordsOK, Records
<1>6. \A e \in bk : e.ref \in Refs => e.shares = ords[e.ref].resting
  BY DEF BookOK
<1>7. \A x \in X : \E e \in K : x = g[e]
  BY <1>1
<1> HIDE DEF g, K, X, M
<1>8. \A x \in X : /\ EntryOK(x)
                   /\ x.ref \in Refs => x.shares = M[x.ref].resting
                   /\ x.ref \in History => pst[x.ref] >= 0
  <2> SUFFICES ASSUME NEW x \in X
               PROVE  /\ EntryOK(x)
                      /\ x.ref \in Refs => x.shares = M[x.ref].resting
                      /\ x.ref \in History => pst[x.ref] >= 0
    OBVIOUS
  <2>1. PICK e \in K : x = g[e]
    BY <1>7
  <2>2. x.ref \in Refs => x.shares = M[x.ref].resting
    BY <2>1, <1>3, <1>4, <1>5, <1>6
  <2>3. x.ref \in History => pst[x.ref] >= 0
    BY <2>1, <1>3, <1>4 DEF BookOK
  <2> QED BY <2>1, <2>2, <2>3, <1>4
<1>9. \A x, y \in X : x.ref = y.ref => x = y
  <2> SUFFICES ASSUME NEW x \in X, NEW y \in X, x.ref = y.ref PROVE x = y
    OBVIOUS
  <2>1. PICK d \in K : x = g[d]
    BY <1>7
  <2>2. PICK e \in K : y = g[e]
    BY <1>7
  <2>3. d = e
    BY <2>1, <2>2, <1>3, <1>4 DEF BookOK
  <2> QED BY <2>1, <2>2, <2>3
<1>10. ASSUME NEW r \in Refs, M[r].resting > 0 PROVE \E x \in X : x.ref = r
  <2>1. ords[r].resting > 0 /\ ords[r].resting > Paid(fills, r)
    BY <1>5, <1>10
  <2>2. PICK e \in bk : e.ref = r
    BY <2>1 DEF BookOK
  <2>3. e \in K
    BY <2>1, <2>2, <1>6 DEF K
  <2> QED BY <2>2, <2>3, <1>1, <1>4
<1>11. \A x \in X : \E d \in bk : d.ref = x.ref
  BY <1>7, <1>3, <1>4
<1>12. BookOK(X, M, pst)
  BY <1>2, <1>8, <1>9, <1>10 DEF BookOK
<1> QED BY <1>11, <1>12 DEF X, M

-----------------------------------------------------------------------------
(* Orders that join and leave the book.                                    *)

\* What Added() adds to bk.
Joiner(bk, ref, side, price, shares) ==
  [ref |-> ref, side |-> side, price |-> price, shares |-> shares,
   place |-> 1 + Max({0} \union {e.place : e \in bk})]

LEMMA AddedFacts ==
  ASSUME NEW bk, NEW ref \in Refs \union History, NEW side, NEW price, NEW shares \in Nat \ {0}
  PROVE  LET j == Joiner(bk, ref, side, price, shares)
         IN  /\ Added(bk, ref, side, price, shares) = bk \union {j}
             /\ EntryOK(j) /\ j.ref = ref /\ j.shares = shares
BY DEF Added, Joiner, EntryOK

\* The record of an order that is not in the book changes.
LEMMA RecordAlone ==
  ASSUME NEW ords \in [Refs -> Records], NEW pst, NEW bk, BookOK(bk, ords, pst),
         NEW ref \in Refs, \A e \in bk : e.ref /= ref, NEW rec, rec.resting = 0
  PROVE  BookOK(bk, [ords EXCEPT ![ref] = rec], pst)
<1> DEFINE p == [ords EXCEPT ![ref] = rec]
<1>1. p[ref] = rec /\ \A r \in Refs : r /= ref => p[r] = ords[r]
  OBVIOUS
<1> HIDE DEF p
<1>2. \A e \in bk : e.ref \in Refs => e.shares = p[e.ref].resting
  BY <1>1 DEF BookOK
<1>3. \A r \in Refs : p[r].resting > 0 => \E e \in bk : e.ref = r
  BY <1>1 DEF BookOK
<1>4. BookOK(bk, p, pst)
  BY <1>2, <1>3 DEF BookOK
<1> QED BY <1>4 DEF p

\* An order of the engine's joins the book.
LEMMA OrderJoins ==
  ASSUME NEW ords \in [Refs -> Records], NEW pst, NEW bk, BookOK(bk, ords, pst),
         NEW ref \in Refs, \A e \in bk : e.ref /= ref,
         NEW rec, rec.resting \in Nat \ {0}, NEW side, NEW price
  PROVE  BookOK(Added(bk, ref, side, price, rec.resting), [ords EXCEPT ![ref] = rec], pst)
<1> DEFINE p == [ords EXCEPT ![ref] = rec]
           j == Joiner(bk, ref, side, price, rec.resting)
           b == Added(bk, ref, side, price, rec.resting)
<1>1. p[ref] = rec /\ \A r \in Refs : r /= ref => p[r] = ords[r]
  OBVIOUS
<1>2. b = bk \union {j} /\ EntryOK(j) /\ j.ref = ref /\ j.shares = rec.resting
  BY AddedFacts
<1> HIDE DEF p, j, b
<1>3. IsFiniteSet(b)
  BY <1>2, FS_AddElement DEF BookOK
<1>4. \A e \in b : /\ EntryOK(e)
                   /\ e.ref \in Refs => e.shares = p[e.ref].resting
                   /\ e.ref \in History => pst[e.ref] >= 0
  BY <1>1, <1>2, BoundFacts DEF BookOK
<1>5. \A e, f \in b : e.ref = f.ref => e = f
  BY <1>2 DEF BookOK
<1>6. \A r \in Refs : p[r].resting > 0 => \E e \in b : e.ref = r
  BY <1>1, <1>2 DEF BookOK
<1>7. BookOK(b, p, pst)
  BY <1>3, <1>4, <1>5, <1>6 DEF BookOK
<1> QED BY <1>7 DEF b, p

\* A historical order joins the book.
LEMMA HistoryJoins ==
  ASSUME NEW ords, NEW pst \in [History -> Int], NEW bk, BookOK(bk, ords, pst),
         NEW ref \in History, \A e \in bk : e.ref /= ref, NEW shares \in Nat \ {0},
         NEW side, NEW price
  PROVE  BookOK(Added(bk, ref, side, price, shares), ords, [pst EXCEPT ![ref] = shares])
<1> DEFINE p == [pst EXCEPT ![ref] = shares]
           j == Joiner(bk, ref, side, price, shares)
           b == Added(bk, ref, side, price, shares)
<1>1. p[ref] = shares /\ \A r \in History : r /= ref => p[r] = pst[r]
  OBVIOUS
<1>2. b = bk \union {j} /\ EntryOK(j) /\ j.ref = ref /\ j.shares = shares
  BY AddedFacts
<1> HIDE DEF p, j, b
<1>3. IsFiniteSet(b)
  BY <1>2, FS_AddElement DEF BookOK
<1>4. \A e \in b : /\ EntryOK(e)
                   /\ e.ref \in Refs => e.shares = ords[e.ref].resting
                   /\ e.ref \in History => p[e.ref] >= 0
  <2>1. ref \notin Refs /\ p[ref] >= 0
    BY <1>1, BoundFacts
  <2>2. \A e \in bk : /\ EntryOK(e)
                      /\ e.ref \in Refs => e.shares = ords[e.ref].resting
                      /\ e.ref \in History => p[e.ref] >= 0
    BY <1>1 DEF BookOK
  <2> QED BY <1>2, <2>1, <2>2
<1>5. \A e, f \in b : e.ref = f.ref => e = f
  BY <1>2 DEF BookOK
<1>6. \A r \in Refs : ords[r].resting > 0 => \E e \in b : e.ref = r
  BY <1>2 DEF BookOK
<1>7. BookOK(b, ords, p)
  BY <1>3, <1>4, <1>5, <1>6 DEF BookOK
<1> QED BY <1>7 DEF b, p

\* What the feed says of an order that stays where it is.
LEMMA PastMoves ==
  ASSUME NEW ords, NEW pst \in [History -> Int], NEW bk, BookOK(bk, ords, pst),
         NEW ref \in History, NEW n \in Nat
  PROVE  BookOK(bk, ords, [pst EXCEPT ![ref] = n])
<1> DEFINE p == [pst EXCEPT ![ref] = n]
<1>1. \A r \in History : pst[r] >= 0 => p[r] >= 0
  OBVIOUS
<1> HIDE DEF p
<1>2. BookOK(bk, ords, p)
  BY <1>1 DEF BookOK
<1> QED BY <1>2 DEF p

LEMMA HistoryLeaves ==
  ASSUME NEW ords, NEW pst, NEW bk, BookOK(bk, ords, pst), NEW ref \in History
  PROVE  BookOK(Removed(bk, ref), ords, pst)
<1>1. Removed(bk, ref) \in SUBSET bk /\ \A e \in bk : e.ref /= ref => e \in Removed(bk, ref)
  BY DEF Removed
<1>2. IsFiniteSet(Removed(bk, ref))
  BY <1>1, FS_Subset DEF BookOK
<1>3. \A r \in Refs : ords[r].resting > 0 => \E e \in Removed(bk, ref) : e.ref = r
  BY <1>1, BoundFacts DEF BookOK
<1> QED BY <1>1, <1>2, <1>3 DEF BookOK

\* Matcher::cancel() of orders, one or all that are armed.
LEMMA WithdrawnFacts ==
  ASSUME NEW m \in Records
  PROVE  /\ Withdrawn(m) \in Records /\ Withdrawn(m).state = "Cancelled"
         /\ Withdrawn(m).resting = 0 /\ Withdrawn(m).side = m.side
         /\ Withdrawn(m).filled = m.filled
         /\ Withdrawn(m).cancelled = m.cancelled + m.resting
<1> DEFINE c == m.cancelled + m.resting
<1>1. c \in Int /\ "Cancelled" \in OrderStates
  BY DEF Records, OrderStates
<1>2. Withdrawn(m) = [m EXCEPT !.state = "Cancelled", !.cancelled = c, !.resting = 0]
  BY DEF Withdrawn, Records
<1> HIDE DEF c
<1>3. /\ Withdrawn(m) \in Records /\ Withdrawn(m).state = "Cancelled"
      /\ Withdrawn(m).resting = 0 /\ Withdrawn(m).side = m.side
      /\ Withdrawn(m).filled = m.filled /\ Withdrawn(m).cancelled = c
  <2>1. Withdrawn(m) = [state |-> "Cancelled", side |-> m.side, filled |-> m.filled,
                        resting |-> 0, cancelled |-> c]
    BY <1>2 DEF Records
  <2>2. m.side \in Sides /\ m.filled \in Int
    BY DEF Records
  <2>3. Withdrawn(m) \in Records
    BY <1>1, <2>1, <2>2 DEF Records
  <2> QED BY <2>1, <2>3
<1> QED BY <1>3 DEF c

WithdrawnAll(ords, A) == [r \in Refs |-> IF r \in A THEN Withdrawn(ords[r]) ELSE ords[r]]

LEMMA OrdersLeave ==
  ASSUME NEW ords, RecordsOK(ords), NEW pst, NEW bk, BookOK(bk, ords, pst),
         NEW A \in SUBSET Refs, \A r \in A : ords[r].state /= "None",
         NEW p, p = WithdrawnAll(ords, A)
  PROVE  /\ RecordsOK(p) /\ IssuedIn(p) = IssuedIn(ords)
         /\ BookOK({e \in bk : e.ref \notin A}, p, pst)
<1> DEFINE b == {e \in bk : e.ref \notin A}
<1>1. \A r \in Refs : /\ p[r] = IF r \in A THEN Withdrawn(ords[r]) ELSE ords[r]
                      /\ ords[r] \in Records
                      /\ ords[r].resting > 0 <=> ords[r].state \in Working
  BY DEF RecordsOK, WithdrawnAll
<1>2. \A r \in Refs : /\ p[r] \in Records
                      /\ p[r].resting > 0 <=> p[r].state \in Working
                      /\ p[r].state = "None" <=> ords[r].state = "None"
                      /\ r \notin A => p[r] = ords[r]
                      /\ r \in A => p[r].resting = 0
  <2> SUFFICES ASSUME NEW r \in Refs
               PROVE  /\ p[r] \in Records
                      /\ p[r].resting > 0 <=> p[r].state \in Working
                      /\ p[r].state = "None" <=> ords[r].state = "None"
                      /\ r \notin A => p[r] = ords[r]
                      /\ r \in A => p[r].resting = 0
    OBVIOUS
  <2>1. CASE r \in A
    BY <1>1, <2>1, WithdrawnFacts DEF Working
  <2>2. CASE r \notin A
    BY <1>1, <2>2
  <2> QED BY <2>1, <2>2
<1>3. RecordsOK(p)
  BY <1>2 DEF RecordsOK, WithdrawnAll
<1>4. IssuedIn(p) = IssuedIn(ords)
  BY <1>2 DEF IssuedIn
<1>5. b \in SUBSET bk /\ \A e \in bk : e.ref \notin A => e \in b
  OBVIOUS
<1>6. \A e \in b : e.ref \notin A
  OBVIOUS
<1> HIDE DEF b
<1>7. IsFiniteSet(b)
  BY <1>5, FS_Subset DEF BookOK
<1>8. \A e \in b : e.ref \in Refs => e.shares = p[e.ref].resting
  BY <1>2, <1>5, <1>6 DEF BookOK
<1>9. \A r \in Refs : p[r].resting > 0 => \E e \in b : e.ref = r
  <2> SUFFICES ASSUME NEW r \in Refs, p[r].resting > 0 PROVE \E e \in b : e.ref = r
    OBVIOUS
  <2>1. r \notin A
    BY <1>2
  <2>2. ords[r].resting > 0
    BY <1>2, <2>1
  <2> QED BY <1>5, <2>1, <2>2 DEF BookOK
<1>10. BookOK(b, p, pst)
  BY <1>5, <1>7, <1>8, <1>9 DEF BookOK
<1> QED BY <1>3, <1>4, <1>10 DEF b

LEMMA OrderLeaves ==
  ASSUME NEW ords, RecordsOK(ords), NEW pst, NEW bk, BookOK(bk, ords, pst),
         NEW ref \in Refs, ords[ref].state /= "None"
  PROVE  LET p == WithdrawnAll(ords, {ref})
         IN  /\ RecordsOK(p) /\ IssuedIn(p) = IssuedIn(ords)
             /\ BookOK(Removed(bk, ref), p, pst)
             /\ p = [ords EXCEPT ![ref] = Withdrawn(@)]
<1> DEFINE A == {ref}
           p == WithdrawnAll(ords, A)
<1>1. p = [ords EXCEPT ![ref] = Withdrawn(@)]
  BY DEF RecordsOK, WithdrawnAll
<1>2. {e \in bk : e.ref \notin A} = Removed(bk, ref)
  BY DEF Removed
<1>3. A \in SUBSET Refs /\ \A r \in A : ords[r].state /= "None"
  OBVIOUS
<1>4. /\ RecordsOK(p) /\ IssuedIn(p) = IssuedIn(ords)
      /\ BookOK({e \in bk : e.ref \notin A}, p, pst)
  <2> HIDE DEF A
  <2> QED BY <1>3, OrdersLeave
<1> QED BY <1>1, <1>2, <1>4, Zenon

-----------------------------------------------------------------------------
(* Matcher::submit().                                                      *)

LEMMA NothingExecuted ==
  ASSUME NEW ords, NEW pst, NEW bk, BookOK(bk, ords, pst)
  PROVE  Executed(bk, {}) = bk /\ MakersPaid(ords, {}) = [r \in Refs |-> ords[r]]
<1>1. \A x : Shares({f \in {} : f.maker = x}) = 0
  <2>1. \A x : {f \in {} : f.maker = x} = {}
    OBVIOUS
  <2>2. Shares({}) = 0
    BY SharesFacts, FS_EmptySet
  <2> QED BY <2>1, <2>2
<1>2. \A e \in bk : /\ e.shares > 0
                    /\ [e EXCEPT !.shares = e.shares - 0] = e
  BY DEF BookOK, EntryOK
<1>3. Executed(bk, {}) =
        {[e EXCEPT !.shares = e.shares - 0] : e \in {f \in bk : f.shares > 0}}
  BY <1>1 DEF Executed
<1>4. Executed(bk, {}) = bk
  BY <1>2, <1>3
<1>5. MakersPaid(ords, {}) = [r \in Refs |-> ords[r]]
  BY DEF MakersPaid
<1> QED BY <1>4, <1>5

\* The next reference is free, and nothing in the book has it.
LEMMA NextIsFree ==
  ASSUME NEW ords, RecordsOK(ords), InOrder(ords), NEW pst, NEW bk, BookOK(bk, ords, pst),
         NEW ref \in Refs, ref = Cardinality(IssuedIn(ords)) + 1
  PROVE  /\ ords[ref].state = "None" /\ ords[ref].resting = 0
         /\ \A e \in bk : e.ref /= ref
         /\ \A p : IssuedIn(p) = IssuedIn(ords) \union {ref} => InOrder(p)
<1> DEFINE n == Cardinality(IssuedIn(ords))
<1>1. IssuedIn(ords) \in SUBSET Refs /\ n \in Nat
  <2>1. IssuedIn(ords) \in SUBSET Refs
    BY DEF IssuedIn
  <2>2. IsFiniteSet(IssuedIn(ords))
    BY <2>1, BoundFacts, FS_Subset
  <2> QED BY <2>1, <2>2, FS_CardinalityType
<1>2. IssuedIn(ords) = 1..n
  BY DEF InOrder
<1> HIDE DEF n
<1>3. ref = n + 1
  BY DEF n
<1>4. ref \notin IssuedIn(ords)
  BY <1>1, <1>2, <1>3
<1>5. ords[ref].state = "None"
  BY <1>4 DEF IssuedIn
<1>6. ords[ref].resting = 0
  BY <1>5 DEF RecordsOK, Records, Working
<1>7. \A e \in bk : e.ref /= ref
  BY <1>6 DEF BookOK, EntryOK
<1>8. ASSUME NEW p, IssuedIn(p) = IssuedIn(ords) \union {ref} PROVE InOrder(p)
  <2>1. (1..n) \union {ref} = 1..(n + 1)
    BY <1>1, <1>3
  <2>2. Cardinality(1..(n + 1)) = n + 1
    BY <1>1, FS_Interval
  <2> QED BY <1>2, <1>8, <2>1, <2>2 DEF InOrder
<1> QED BY <1>5, <1>6, <1>7, <1>8

SubmitPost(recs, bk, pst, ref, order, fills, res) ==
  /\ FillsOK(fills, bk, ref) /\ res.fills = fills
  /\ RecordsOK(res.orders) /\ InOrder(res.orders)
  /\ IssuedIn(res.orders) = IssuedIn(recs) \union {ref}
  /\ BookOK(res.book, res.orders, pst)
  /\ res.orders[ref].state = res.state /\ res.state /= "None"
  /\ res.orders[ref].side = order.side /\ res.orders[ref].filled = Shares(fills)
  /\ res.orders[ref].resting = res.resting
  /\ \A r \in Refs \ {ref} : res.orders[r] = MakersPaid(recs, fills)[r]
  /\ res.book = IF res.resting > 0
                  THEN Added(Executed(bk, fills), ref, order.side, order.price, res.resting)
                  ELSE Executed(bk, fills)
  /\ res.state = "Rejected" =>
       /\ fills = {} /\ res.book = bk /\ res.resting = 0
       /\ \A r \in Refs \ {ref} : res.orders[r] = recs[r]

LEMMA SubmittedFacts ==
  ASSUME NEW recs, RecordsOK(recs), InOrder(recs), NEW pst, NEW bk, BookOK(bk, recs, pst),
         NEW ref \in Refs, ref = Cardinality(IssuedIn(recs)) + 1, NEW order \in OrderSet,
         NEW fills, fills = Fills(bk, ref, order),
         NEW res, res = Submitted(recs, bk, ref, order, fills)
  PROVE  SubmitPost(recs, bk, pst, ref, order, fills, res)
<1> DEFINE filled == Shares(fills)
           left == order.shares - filled
           rests == left > 0 /\ ~order.market
           state == CASE order.market /\ filled = 0 -> "Rejected"
                      [] left = 0 -> "Filled"
                      [] rests -> IF filled > 0 THEN "PartiallyFilled" ELSE "Accepted"
                      [] OTHER -> "Cancelled"
           resting == IF rests THEN left ELSE 0
           cancelled == IF state = "Cancelled" THEN left ELSE 0
           record == [state |-> state, side |-> order.side, filled |-> filled,
                      resting |-> resting, cancelled |-> cancelled]
           after == Executed(bk, fills)
           M == MakersPaid(recs, fills)
           p == [M EXCEPT ![ref] = record]
           b == IF rests THEN Added(after, ref, order.side, order.price, left) ELSE after
<1>1. FillsOK(fills, bk, ref)
  BY FillsFacts
<1>2. res = [state |-> state, fills |-> fills, resting |-> resting, orders |-> p, book |-> b]
  BY DEF Submitted
<1>3. /\ order.shares \in Nat /\ order.side \in Sides /\ order.market \in BOOLEAN
  BY DEF OrderSet
<1>4. filled \in Nat /\ (filled = 0 => fills = {})
  <2>1. \A f \in fills : f.shares \in Nat \ {0} /\ f.shares \in Nat
    BY <1>1 DEF FillsOK
  <2>2. IsFiniteSet(fills)
    BY <1>1 DEF FillsOK
  <2>3. filled \in Nat /\ \A f \in fills : f.shares <= filled
    BY <2>1, <2>2, SharesFacts
  <2> QED BY <2>1, <2>3
<1>5. /\ recs[ref].state = "None" /\ recs[ref].resting = 0
      /\ \A e \in bk : e.ref /= ref
  BY NextIsFree
<1>6. /\ RecordsOK(M) /\ IssuedIn(M) = IssuedIn(recs)
      /\ BookOK(after, M, pst) /\ \A e \in after : \E d \in bk : d.ref = e.ref
  <2> HIDE DEF M, after
  <2> QED BY <1>1, MakersPaidFacts, ExecutedKeeps DEF M, after
<1>7. \A e \in after : e.ref /= ref
  BY <1>5, <1>6
<1>8. left \in Int
  BY <1>3, <1>4
<1> HIDE DEF filled, left, after, M
<1>9. /\ state \in OrderStates \ {"None"} /\ resting \in Nat /\ cancelled \in Int
      /\ resting > 0 <=> rests
      /\ rests <=> state \in Working
      /\ rests => resting = left
  <2>1. resting \in Nat /\ (resting > 0 <=> rests) /\ (rests => resting = left)
    BY <1>8
  <2>2. state \in OrderStates \ {"None"}
    BY DEF OrderStates, Working
  <2>3. cancelled \in Int
    BY <1>8
  <2>4. rests <=> state \in Working
    <3>1. CASE order.market /\ filled = 0
      BY <3>1 DEF Working
    <3>2. CASE ~(order.market /\ filled = 0) /\ left = 0
      BY <3>2 DEF Working
    <3>3. CASE ~(order.market /\ filled = 0) /\ left /= 0 /\ rests
      BY <3>3 DEF Working
    <3>4. CASE ~(order.market /\ filled = 0) /\ left /= 0 /\ ~rests
      BY <3>4 DEF Working
    <3> QED BY <3>1, <3>2, <3>3, <3>4
  <2> QED BY <2>1, <2>2, <2>3, <2>4
<1>10. state = "Rejected" => filled = 0 /\ ~rests
  <2>1. CASE order.market /\ filled = 0
    BY <2>1
  <2>2. CASE ~(order.market /\ filled = 0)
    BY <2>2
  <2> QED BY <2>1, <2>2
<1> HIDE DEF state, resting, cancelled, rests
<1>11. /\ record \in Records
       /\ record.resting = resting /\ record.state = state /\ record.side = order.side
       /\ record.filled = filled
  BY <1>3, <1>4, <1>9 DEF Records
<1> HIDE DEF record
<1>12. M \in [Refs -> Records]
  BY <1>6 DEF RecordsOK
<1>13. /\ p \in [Refs -> Records] /\ p[ref] = record
       /\ \A r \in Refs \ {ref} : p[r] = M[r]
  BY <1>11, <1>12
<1>14. RecordsOK(p)
  <2> HIDE DEF p
  <2> QED BY <1>6, <1>9, <1>11, <1>13 DEF RecordsOK
<1>15. IssuedIn(p) = IssuedIn(recs) \union {ref}
  <2> HIDE DEF p
  <2>1. \A r \in Refs : r \in IssuedIn(p) <=> r = ref \/ r \in IssuedIn(M)
    BY <1>9, <1>11, <1>13 DEF IssuedIn
  <2>2. IssuedIn(p) \subseteq Refs /\ IssuedIn(M) \subseteq Refs
    BY DEF IssuedIn
  <2> QED BY <1>6, <2>1, <2>2
<1>16. InOrder(p)
  <2> HIDE DEF p
  <2> QED BY <1>15, NextIsFree
<1>17. /\ BookOK(b, p, pst)
       /\ b = IF resting > 0 THEN Added(after, ref, order.side, order.price, resting) ELSE after
  <2>1. CASE rests
    <3>1. record.resting \in Nat \ {0}
      BY <1>9, <1>11, <2>1
    <3>2. BookOK(Added(after, ref, order.side, order.price, record.resting), p, pst)
      BY <1>6, <1>7, <1>12, <3>1, OrderJoins
    <3> QED BY <1>9, <1>11, <2>1, <3>2
  <2>2. CASE ~rests
    <3>1. record.resting = 0
      BY <1>9, <1>11, <2>2
    <3>2. BookOK(after, p, pst)
      BY <1>6, <1>7, <1>12, <3>1, RecordAlone
    <3> QED BY <1>9, <2>2, <3>2
  <2> QED BY <2>1, <2>2
<1>18. state = "Rejected" =>
         /\ fills = {} /\ b = bk /\ resting = 0 /\ \A r \in Refs \ {ref} : p[r] = recs[r]
  <2> SUFFICES ASSUME state = "Rejected"
               PROVE  fills = {} /\ b = bk /\ resting = 0
                      /\ \A r \in Refs \ {ref} : p[r] = recs[r]
    OBVIOUS
  <2>1. fills = {} /\ ~rests
    BY <1>4, <1>10
  <2>2. after = bk /\ \A r \in Refs : M[r] = recs[r]
    BY <2>1, NothingExecuted DEF after, M
  <2>3. resting = 0
    BY <1>9, <2>1
  <2> QED BY <1>13, <2>1, <2>2, <2>3
<1> HIDE DEF p, b
<1>19. /\ res.fills = fills /\ res.state = state /\ res.resting = resting
       /\ res.orders = p /\ res.book = b
  BY <1>2
<1>20. /\ p[ref].state = state /\ state /= "None" /\ p[ref].side = order.side
       /\ p[ref].filled = Shares(fills) /\ p[ref].resting = resting
  BY <1>9, <1>11, <1>13 DEF filled
<1>21. \A r \in Refs \ {ref} : p[r] = MakersPaid(recs, fills)[r]
  BY <1>13 DEF M
<1>22. b = IF resting > 0 THEN Added(Executed(bk, fills), ref, order.side, order.price, resting)
           ELSE Executed(bk, fills)
  BY <1>17 DEF after
<1> QED
  BY <1>1, <1>14, <1>15, <1>16, <1>17, <1>18, <1>19, <1>20, <1>21, <1>22 DEF SubmitPost

-----------------------------------------------------------------------------
(* pump_fills(): the position.                                             *)

LEMMA OneToken ==
  ASSUME NEW token \in [Tokens -> 0..MaxRefs],
         \A t, u \in Tokens : token[t] = token[u] /\ token[t] /= 0 => t = u,
         NEW r, NEW v \in Int, NEW h, \A t \in Tokens : h[t] = IF token[t] = r /\ r /= 0 THEN v ELSE 0
  PROVE  SumFunctionOnSet(h, Tokens) = IF r \in {token[t] : t \in Tokens} \ {0} THEN v ELSE 0
<1>1. IsFiniteSet(Tokens)
  BY BoundFacts
<1>2. CASE r \in {token[t] : t \in Tokens} \ {0}
  <2>1. PICK t \in Tokens : token[t] = r
    BY <1>2
  <2>2. h[t] = v /\ \A u \in Tokens \ {t} : h[u] = 0
    BY <1>2, <2>1
  <2> QED BY <1>1, <1>2, <2>2, SumOne
<1>3. CASE r \notin {token[t] : t \in Tokens} \ {0}
  <2>1. \A t \in Tokens : h[t] = 0
    BY <1>3
  <2> QED BY <1>1, <1>3, <2>1, SumZeros
<1> QED BY <1>2, <1>3

\* The shares of token t's order in the fills, on either side.
Share(token, fills, t) == Shares({f \in fills : token[t] /= 0 /\ token[t] \in {f.taker, f.maker}})

LEMMA ShareFacts ==
  ASSUME NEW token, NEW fills, NEW bk, NEW taker, FillsOK(fills, bk, taker), NEW t
  PROVE  Share(token, fills, t) \in Nat
<1> DEFINE A == {f \in fills : token[t] /= 0 /\ token[t] \in {f.taker, f.maker}}
<1>1. A \in SUBSET fills /\ IsFiniteSet(fills) /\ \A f \in A : f.shares \in Nat
  BY DEF FillsOK
<1>2. IsFiniteSet(A)
  BY <1>1, FS_Subset
<1> HIDE DEF A
<1>3. Shares(A) \in Nat
  BY <1>1, <1>2, SharesFacts
<1> QED BY <1>3 DEF Share, A

LEMMA SignedShares ==
  ASSUME NEW A, IsFiniteSet(A), \A f \in A : f.shares \in Nat, NEW side,
         NEW h, \A f \in A : h[f] = Signed(side, f.shares)
  PROVE  SumFunctionOnSet(h, A) = Signed(side, Shares(A))
<1> DEFINE k == [f \in A |-> f.shares]
<1>1. Shares(A) = SumFunctionOnSet(k, A)
  BY SharesUnfolded
<1>2. \A f \in A : k[f] = f.shares /\ k[f] \in Int
  OBVIOUS
<1> HIDE DEF k
<1>3. CASE side = "buy"
  <2>1. \A f \in A : h[f] = k[f]
    BY <1>2, <1>3 DEF Signed
  <2>2. SumFunctionOnSet(h, A) = SumFunctionOnSet(k, A)
    BY <2>1, SumSame
  <2> QED BY <1>1, <1>3, <2>2 DEF Signed
<1>4. CASE side /= "buy"
  <2>1. \A f \in A : k[f] \in Int /\ h[f] = -k[f]
    BY <1>2, <1>4 DEF Signed
  <2>2. SumFunctionOnSet(h, A) = -SumFunctionOnSet(k, A)
    BY <2>1, SumMinus
  <2> QED BY <1>1, <1>4, <2>2 DEF Signed
<1> QED BY <1>3, <1>4

\* What the fills move the position by: the sum over the fills of what each
\* is worth to the gateway is the sum over its tokens of what each traded.
Worth(g, ords, r, f) == IF r \in Ours(g) THEN Signed(ords[r].side, f.shares) ELSE 0
ByFill(D, g, ords, fills) ==
  \A f \in fills : D[f] = Worth(g, ords, f.taker, f) + Worth(g, ords, f.maker, f)
ByToken(C, g, ords, fills) ==
  \A t \in Tokens : C[t] = IF g.token[t] = 0 THEN 0
                           ELSE Signed(ords[g.token[t]].side, Share(g.token, fills, t))

LEMMA FillsByToken ==
  ASSUME NEW g, NEW ords, TokensOK(g.token, ords), NEW fills, NEW bk, NEW taker,
         FillsOK(fills, bk, taker), \A f \in fills : f.maker /= taker,
         NEW D, ByFill(D, g, ords, fills), NEW C, ByToken(C, g, ords, fills)
  PROVE  SumFunctionOnSet(D, fills) = SumFunctionOnSet(C, Tokens)
<1> USE DEF ByFill, ByToken
<1> DEFINE token == g.token
           part(r, f, t) == IF token[t] = r /\ r /= 0 THEN Signed(ords[r].side, f.shares) ELSE 0
           a == [f \in fills |-> [t \in Tokens |->
                   IF token[t] /= 0 /\ token[t] \in {f.taker, f.maker}
                     THEN Signed(ords[token[t]].side, f.shares) ELSE 0]]
<1>1. /\ IsFiniteSet(fills) /\ IsFiniteSet(Tokens)
      /\ \A f \in fills : f.taker = taker /\ f.shares \in Nat /\ f.maker /= taker
  BY BoundFacts DEF FillsOK
<1>2. \A side, n : n \in Nat => Signed(side, n) \in Int
  BY DEF Signed
<1>3. \A f \in fills, t \in Tokens :
        a[f][t] = IF token[t] /= 0 /\ token[t] \in {f.taker, f.maker}
                    THEN Signed(ords[token[t]].side, f.shares) ELSE 0
  OBVIOUS
<1>4. \A f \in fills, t \in Tokens : a[f][t] \in Int
  BY <1>1, <1>2, <1>3
<1>5. \A f \in fills : D[f] = SumFunctionOnSet(a[f], Tokens)
  <2> SUFFICES ASSUME NEW f \in fills PROVE D[f] = SumFunctionOnSet(a[f], Tokens)
    OBVIOUS
  <2> DEFINE h == [t \in Tokens |-> part(f.taker, f, t)]
             k == [t \in Tokens |-> part(f.maker, f, t)]
             u == Signed(ords[f.taker].side, f.shares)
             v == Signed(ords[f.maker].side, f.shares)
             q == a[f]
  <2>1. u \in Int /\ v \in Int
    BY <1>1, <1>2
  <2>2. \A t \in Tokens : h[t] = IF token[t] = f.taker /\ f.taker /= 0 THEN u ELSE 0
    OBVIOUS
  <2>3. \A t \in Tokens : k[t] = IF token[t] = f.maker /\ f.maker /= 0 THEN v ELSE 0
    OBVIOUS
  <2>4. \A t \in Tokens : q[t] = h[t] + k[t]
    <3> SUFFICES ASSUME NEW t \in Tokens PROVE q[t] = h[t] + k[t]
      OBVIOUS
    <3>1. q[t] = IF token[t] /= 0 /\ token[t] \in {f.taker, f.maker}
                   THEN Signed(ords[token[t]].side, f.shares) ELSE 0
      BY <1>3
    <3>2. f.taker /= f.maker
      BY <1>1
    <3> HIDE DEF a, h, k, q, u, v
    <3>3. CASE token[t] /= 0 /\ token[t] = f.taker
      <4>1. q[t] = u /\ h[t] = u /\ k[t] = 0
        BY <2>2, <2>3, <3>1, <3>2, <3>3 DEF u
      <4> QED BY <4>1, <2>1
    <3>4. CASE token[t] /= 0 /\ token[t] = f.maker
      <4>1. q[t] = v /\ h[t] = 0 /\ k[t] = v
        BY <2>2, <2>3, <3>1, <3>2, <3>4 DEF v
      <4> QED BY <4>1, <2>1
    <3>5. CASE ~(token[t] /= 0 /\ token[t] \in {f.taker, f.maker})
      <4>1. q[t] = 0 /\ h[t] = 0 /\ k[t] = 0
        BY <2>2, <2>3, <3>1, <3>5
      <4> QED BY <4>1
    <3> QED BY <3>3, <3>4, <3>5
  <2>5. token \in [Tokens -> 0..MaxRefs]
        /\ \A t, w \in Tokens : token[t] = token[w] /\ token[t] /= 0 => t = w
    BY DEF TokensOK
  <2> HIDE DEF a, h, k, q, u, v, token
  <2>6. SumFunctionOnSet(h, Tokens) = IF f.taker \in {token[t] : t \in Tokens} \ {0} THEN u ELSE 0
    <3> DEFINE r == f.taker
    <3>1. \A t \in Tokens : h[t] = IF token[t] = r /\ r /= 0 THEN u ELSE 0
      BY <2>2
    <3> HIDE DEF r, part
    <3>2. SumFunctionOnSet(h, Tokens) = IF r \in {token[t] : t \in Tokens} \ {0} THEN u ELSE 0
      BY <2>1, <2>5, <3>1, OneToken
    <3> QED BY <3>2 DEF r
  <2>7. SumFunctionOnSet(k, Tokens) = IF f.maker \in {token[t] : t \in Tokens} \ {0} THEN v ELSE 0
    <3> DEFINE r == f.maker
    <3>1. \A t \in Tokens : k[t] = IF token[t] = r /\ r /= 0 THEN v ELSE 0
      BY <2>3
    <3> HIDE DEF r, part
    <3>2. SumFunctionOnSet(k, Tokens) = IF r \in {token[t] : t \in Tokens} \ {0} THEN v ELSE 0
      BY <2>1, <2>5, <3>1, OneToken
    <3> QED BY <3>2 DEF r
  <2>8. SumFunctionOnSet(q, Tokens) = SumFunctionOnSet(h, Tokens) + SumFunctionOnSet(k, Tokens)
    <3>1. \A t \in Tokens : h[t] \in Int /\ k[t] \in Int /\ q[t] = h[t] + k[t]
      BY <2>1, <2>2, <2>3, <2>4
    <3> QED BY <1>1, <3>1, SumPlus
  <2>9. Ours(g) = {token[t] : t \in Tokens} \ {0}
    BY DEF Ours, token
  <2> QED BY <2>6, <2>7, <2>8, <2>9 DEF Worth, q, u, v
<1>6. \A t \in Tokens : C[t] = SumFunctionOnSet([f \in fills |-> a[f][t]], fills)
  <2> SUFFICES ASSUME NEW t \in Tokens
               PROVE  C[t] = SumFunctionOnSet([f \in fills |-> a[f][t]], fills)
    OBVIOUS
  <2> DEFINE P == {f \in fills : token[t] /= 0 /\ token[t] \in {f.taker, f.maker}}
             col == [f \in fills |-> a[f][t]]
             side == ords[token[t]].side
             h == [f \in P |-> Signed(side, f.shares)]
  <2>1. P \in SUBSET fills /\ IsFiniteSet(P) /\ \A f \in P : f.shares \in Nat
    <3>1. P \in SUBSET fills
      OBVIOUS
    <3> QED BY <1>1, <3>1, FS_Subset
  <2>2. \A f \in fills : col[f] = IF f \in P THEN Signed(side, f.shares) ELSE 0
    BY <1>3
  <2>3. \A f \in P : h[f] = Signed(side, f.shares) /\ h[f] \in Int
    BY <1>2, <2>1
  <2>4. Share(token, fills, t) = Shares(P)
    BY DEF Share
  <2>5. token[t] = 0 => P = {}
    OBVIOUS
  <2> HIDE DEF P, col, h, a, side
  <2>6. SumFunctionOnSet(h, P) = Signed(side, Shares(P))
    BY <2>1, <2>3, SignedShares
  <2>7. SumFunctionOnSet(col, fills) = SumFunctionOnSet(h, P)
    <3>1. \A f \in fills : col[f] = IF f \in P THEN h[f] ELSE 0
      BY <2>2, <2>3
    <3> QED BY <1>1, <2>1, <2>3, <3>1, SumFilter
  <2>8. CASE token[t] = 0
    <3>1. SumFunctionOnSet(h, P) = 0
      BY <2>5, <2>8, SumEmpty
    <3>2. C[t] = 0
      BY <2>8
    <3> QED BY <2>7, <3>1, <3>2 DEF col
  <2>9. CASE token[t] /= 0
    BY <2>4, <2>6, <2>7, <2>9 DEF col, side
  <2> QED BY <2>8, <2>9
<1> DEFINE b == [t \in Tokens |-> [f \in fills |-> a[f][t]]]
<1>7. /\ IsFiniteSet(fills) /\ IsFiniteSet(Tokens)
      /\ Tables(a, b, fills, Tokens)
      /\ RowSums(D, a, fills, Tokens) /\ RowSums(C, b, Tokens, fills)
  <2> HIDE DEF a
  <2> QED BY <1>1, <1>4, <1>5, <1>6 DEF Tables, RowSums
<1> HIDE DEF a, b
<1> QED BY <1>7, SumSwap

LEMMA PumpedFacts ==
  ASSUME NEW g,
         g = [token |-> g.token, live |-> g.live, position |-> g.position,
              flattened |-> g.flattened],
         NEW p, TokensOK(g.token, p), NEW fills, NEW bk, NEW taker,
         FillsOK(fills, bk, taker), \A f \in fills : f.maker /= taker,
         NEW old, \A t \in Tokens : old[t] \in Int,
         g.position = SumFunctionOnSet(old, Tokens),
         \A t \in Tokens :
           Traded(g.token, p, t) =
             old[t] + (IF g.token[t] = 0 THEN 0
                       ELSE Signed(p[g.token[t]].side, Share(g.token, fills, t))),
         g.live \subseteq Ours(g),
         \A r \in Ours(g) : ~Done(p[r].state) => r \in g.live,
         \A r \in g.live : Done(p[r].state) => \E f \in fills : r \in {f.taker, f.maker}
  PROVE  GatewayOK(Pumped(g, p, fills), p) /\ Pumped(g, p, fills).token = g.token
<1> DEFINE D == [f \in fills |-> Worth(g, p, f.taker, f) + Worth(g, p, f.maker, f)]
           C == [t \in Tokens |->
                   IF g.token[t] = 0 THEN 0
                   ELSE Signed(p[g.token[t]].side, Share(g.token, fills, t))]
           H == [t \in Tokens |-> Traded(g.token, p, t)]
           x == g.position + SumFunction(D)
           l == g.live \ {r \in g.live : /\ Done(p[r].state)
                                         /\ \E f \in fills : r \in {f.taker, f.maker}}
           q == Pumped(g, p, fills)
<1>1. q = [g EXCEPT !.position = x, !.live = l]
  BY DEF Pumped, Worth
<1>2. SumFunction(D) = SumFunctionOnSet(C, Tokens)
  <2>1. ByFill(D, g, p, fills)
    BY DEF ByFill
  <2>2. ByToken(C, g, p, fills)
    BY DEF ByToken
  <2>3. DOMAIN D = fills
    OBVIOUS
  <2> HIDE DEF D, C
  <2>4. SumFunction(D) = SumFunctionOnSet(D, fills)
    BY <2>3 DEF SumFunction
  <2>5. SumFunctionOnSet(D, fills) = SumFunctionOnSet(C, Tokens)
    BY <2>1, <2>2, FillsByToken
  <2> QED BY <2>4, <2>5
<1>3. \A t \in Tokens : C[t] \in Int /\ old[t] \in Int /\ H[t] = old[t] + C[t]
  <2> SUFFICES ASSUME NEW t \in Tokens
               PROVE  C[t] \in Int /\ old[t] \in Int /\ H[t] = old[t] + C[t]
    OBVIOUS
  <2>1. Share(g.token, fills, t) \in Nat
    BY ShareFacts
  <2>2. \A side, n : n \in Nat => Signed(side, n) \in Int
    BY DEF Signed
  <2> QED BY <2>1, <2>2
<1>4. SumFunctionOnSet(H, Tokens) = SumFunctionOnSet(old, Tokens) + SumFunctionOnSet(C, Tokens)
  <2> HIDE DEF H, C
  <2> QED BY <1>3, SumPlus, BoundFacts
<1>5. Held(g.token, p) = SumFunctionOnSet(H, Tokens)
  BY DEF Held
<1>6. x = Held(g.token, p)
  <2> HIDE DEF D, C, H
  <2> QED BY <1>2, <1>4, <1>5
<1>7. l = {r \in Ours(g) : ~Done(p[r].state)}
  OBVIOUS
<1> HIDE DEF x, l, q
<1>8. q = [token |-> g.token, live |-> l, position |-> x, flattened |-> g.flattened]
  BY <1>1
<1>9. /\ q.token = g.token /\ q.live = l /\ q.position = x /\ q.flattened = g.flattened
      /\ q = [token |-> q.token, live |-> q.live, position |-> q.position,
              flattened |-> q.flattened]
  BY <1>8
<1>10. Ours(q) = Ours(g)
  BY <1>9 DEF Ours
<1>11. GatewayOK(q, p)
  BY <1>6, <1>7, <1>9, <1>10 DEF GatewayOK
<1> QED BY <1>9, <1>11 DEF q

\* An order of token t that was not the taker's traded what it was paid.
LEMMA MakerShare ==
  ASSUME NEW token, NEW fills, NEW bk, NEW taker, FillsOK(fills, bk, taker),
         NEW t, token[t] /= 0, token[t] /= taker
  PROVE  Share(token, fills, t) = Paid(fills, token[t])
<1>1. {f \in fills : token[t] /= 0 /\ token[t] \in {f.taker, f.maker}} =
        {f \in fills : f.maker = token[t]}
  BY DEF FillsOK
<1> QED BY <1>1 DEF Share, Paid

LEMMA TakerShare ==
  ASSUME NEW token, NEW fills, NEW bk, NEW taker, FillsOK(fills, bk, taker),
         NEW t, token[t] = taker, taker /= 0
  PROVE  Share(token, fills, t) = Shares(fills)
<1>1. {f \in fills : token[t] /= 0 /\ token[t] \in {f.taker, f.maker}} = fills
  BY DEF FillsOK
<1> QED BY <1>1 DEF Share

LEMMA SignedAdds ==
  ASSUME NEW side, NEW m \in Int, NEW n \in Int
  PROVE  /\ Signed(side, m) \in Int /\ Signed(side, 0) = 0
         /\ Signed(side, m + n) = Signed(side, m) + Signed(side, n)
<1>1. CASE side = "buy"
  <2>1. \A k : Signed(side, k) = k
    BY <1>1 DEF Signed
  <2> QED BY <2>1
<1>2. CASE side /= "buy"
  <2>1. \A k : Signed(side, k) = -k
    BY <1>2 DEF Signed
  <2>2. \A a, b \in Int : -(a + b) = (-a) + (-b) /\ -a \in Int
    OBVIOUS
  <2>3. PICK z \in Int : z = 0
    OBVIOUS
  <2>4. z \in Int
    BY <2>3
  <2>5. -z \in Int /\ -(z + z) = (-z) + (-z)
    BY <2>2, <2>4
  <2>6. z + z = z
    BY <2>3
  <2>7. -z = (-z) + (-z)
    BY <2>5, <2>6, Zenon
  <2>8. \A a \in Int : a = a + a => a = 0
    OBVIOUS
  <2>9. -z = 0
    BY <2>5, <2>7, <2>8
  <2>10. Signed(side, 0) = 0
    BY <2>1, <2>3, <2>9, Zenon
  <2> QED BY <2>1, <2>2, <2>10
<1> QED BY <1>1, <1>2

LEMMA TradedMoves ==
  ASSUME NEW ords, RecordsOK(ords), NEW pst, NEW bk, BookOK(bk, ords, pst),
         NEW fills, NEW taker, FillsOK(fills, bk, taker),
         NEW token, NEW t, token[t] \in Refs, token[t] /= taker,
         NEW p, p[token[t]] = MakersPaid(ords, fills)[token[t]]
  PROVE  /\ Traded(token, p, t) =
              Traded(token, ords, t) + Signed(p[token[t]].side, Share(token, fills, t))
         /\ p[token[t]].filled = ords[token[t]].filled + Share(token, fills, t)
         /\ p[token[t]].cancelled = ords[token[t]].cancelled
<1> DEFINE r == token[t]
           n == Share(token, fills, t)
<1>1. r /= 0 /\ n \in Nat /\ n = Paid(fills, r)
  BY BoundFacts, ShareFacts, MakerShare
<1>2. /\ p[r].side = ords[r].side /\ p[r].filled = ords[r].filled + Paid(fills, r)
      /\ p[r].cancelled = ords[r].cancelled
  BY MakersPaidFacts
<1>3. ords[r].filled \in Int
  BY DEF RecordsOK, Records
<1>4. Signed(p[r].side, ords[r].filled + n) =
        Signed(p[r].side, ords[r].filled) + Signed(p[r].side, n)
  <2> DEFINE a == ords[r].filled
             side == p[r].side
  <2>1. a \in Int /\ n \in Int
    BY <1>1, <1>3
  <2> HIDE DEF n, r, a, side
  <2>2. Signed(side, a + n) = Signed(side, a) + Signed(side, n)
    BY <2>1, SignedAdds
  <2> QED BY <2>2 DEF a, side
<1> HIDE DEF n
<1> QED BY <1>1, <1>2, <1>4 DEF Traded, n

-----------------------------------------------------------------------------
(* Binding a token.                                                        *)

Bind(g, tok, ref, done) ==
  [g EXCEPT !.token[tok] = ref, !.live = IF done THEN @ ELSE @ \union {ref}]

LEMMA BindFacts ==
  ASSUME NEW g, NEW recs, RecordsOK(recs), GatewayOK(g, recs), NEW tok \in Tokens,
         g.token[tok] = 0, NEW ref \in Refs, recs[ref].state = "None",
         NEW done \in BOOLEAN, NEW p, IssuedIn(p) = IssuedIn(recs) \union {ref}
  PROVE  LET b == Bind(g, tok, ref, done)
         IN  /\ b = [token |-> b.token, live |-> b.live, position |-> b.position,
                     flattened |-> b.flattened]
             /\ TokensOK(b.token, p)
             /\ b.token[tok] = ref /\ \A t \in Tokens \ {tok} : b.token[t] = g.token[t]
             /\ b.position = g.position
             /\ b.live = IF done THEN g.live ELSE g.live \union {ref}
             /\ Ours(b) = Ours(g) \union {ref} /\ ref \notin Ours(g)
             /\ Ours(g) \subseteq Refs
<1> DEFINE b == Bind(g, tok, ref, done)
           token == [g.token EXCEPT ![tok] = ref]
           live == IF done THEN g.live ELSE g.live \union {ref}
<1>1. /\ g = [token |-> g.token, live |-> g.live, position |-> g.position,
              flattened |-> g.flattened]
      /\ g.token \in [Tokens -> 0..MaxRefs]
      /\ \A t \in Tokens : g.token[t] /= 0 => recs[g.token[t]].state /= "None"
      /\ \A t, u \in Tokens : g.token[t] = g.token[u] /\ g.token[t] /= 0 => t = u
  BY DEF GatewayOK, TokensOK
<1>2. b = [token |-> token, live |-> live, position |-> g.position, flattened |-> g.flattened]
  <2>1. b = [g EXCEPT !.token = token, !.live = live]
    BY <1>1 DEF Bind
  <2> HIDE DEF token, live, b
  <2> QED BY <1>1, <2>1
<1>3. \A r \in Refs : r \in 0..MaxRefs /\ r /= 0
  BY BoundFacts DEF Refs
<1>4. \A r \in 0..MaxRefs : r /= 0 => r \in Refs
  BY BoundFacts DEF Refs
<1>5. /\ token \in [Tokens -> 0..MaxRefs] /\ token[tok] = ref
      /\ \A t \in Tokens \ {tok} : token[t] = g.token[t]
  BY <1>1, <1>3
<1>6. ref \notin Ours(g) /\ Ours(g) \subseteq Refs /\ Ours(g) = {g.token[t] : t \in Tokens} \ {0}
  BY <1>1, <1>4 DEF Ours
<1> HIDE DEF token, live, b
<1>7. \A t \in Tokens : token[t] /= 0 => p[token[t]].state /= "None"
  <2>1. \A r \in Refs : r = ref \/ recs[r].state /= "None" => p[r].state /= "None"
    BY DEF IssuedIn
  <2> QED BY <1>1, <1>4, <1>5, <2>1
<1>8. \A t, u \in Tokens : token[t] = token[u] /\ token[t] /= 0 => t = u
  BY <1>1, <1>5
<1>9. TokensOK(token, p)
  BY <1>5, <1>7, <1>8 DEF TokensOK
<1>10. {token[t] : t \in Tokens} \ {0} = ({g.token[t] : t \in Tokens} \ {0}) \union {ref}
  <2>1. ref /= 0
    BY <1>3
  <2> QED BY <1>5, <2>1
<1>11. /\ b.token = token /\ b.live = live /\ b.position = g.position
       /\ b = [token |-> b.token, live |-> b.live, position |-> b.position,
               flattened |-> b.flattened]
  BY <1>2
<1>12. Ours(b) = Ours(g) \union {ref}
  BY <1>6, <1>10, <1>11 DEF Ours
<1> QED BY <1>5, <1>6, <1>9, <1>11, <1>12 DEF b, live

-----------------------------------------------------------------------------
(* What is said.                                                           *)

LEMMA SpeakFacts ==
  ASSUME NEW s \in Sessions, NEW n \in Nat
  PROVE  Speak(s, n) \in Sessions /\ Speak(s, n).state = s.state
<1>1. CASE s.state = "LoggedIn" /\ n /= 0
  <2> DEFINE k == s.seq + n
  <2>1. k \in Nat
    BY DEF Sessions
  <2>2. Speak(s, n) = [s EXCEPT !.seq = k, !.sent = 0]
    BY <1>1 DEF Speak, Sequenced, Sent, Sessions
  <2> HIDE DEF k
  <2>3. s.state \in Early \union {"LoggedIn"} \union TerminalStates /\ s.heard \in Nat
    BY DEF Sessions
  <2>4. Speak(s, n) = [state |-> s.state, sent |-> 0, heard |-> s.heard, seq |-> k]
    BY <2>2 DEF Sessions
  <2> QED BY <2>1, <2>3, <2>4 DEF Sessions
<1>2. CASE ~(s.state = "LoggedIn" /\ n /= 0)
  BY <1>2 DEF Speak, Sequenced
<1> QED BY <1>1, <1>2

LEMMA MessagesFacts ==
  ASSUME NEW fills, NEW bk, NEW taker, FillsOK(fills, bk, taker), NEW g
  PROVE  ExecutedMessages(g, fills) \in Nat
<1> DEFINE A == {f \in fills : f.taker \in Ours(g)}
           B == {f \in fills : f.maker \in Ours(g)}
<1>1. A \in SUBSET fills /\ B \in SUBSET fills /\ IsFiniteSet(fills)
  BY DEF FillsOK
<1>2. ExecutedMessages(g, fills) = Cardinality(A) + Cardinality(B)
  BY DEF ExecutedMessages
<1> HIDE DEF A, B
<1>3. Cardinality(A) \in Nat /\ Cardinality(B) \in Nat
  BY <1>1, FS_Subset, FS_CardinalityType
<1> QED BY <1>2, <1>3

LEMMA ToldFacts ==
  ASSUME NEW tld, NEW g, NEW fills, NEW t \in Tokens, NEW a, NEW c,
         tld[t] = [executed |-> a, cancelled |-> c]
  PROVE  ToldOfFills(tld, g, fills)[t] =
           [executed |-> a + Share(g.token, fills, t), cancelled |-> c]
<1>1. ToldOfFills(tld, g, fills)[t] = [tld[t] EXCEPT !.executed = @ + Share(g.token, fills, t)]
  BY DEF ToldOfFills, Share
<1> QED BY <1>1

-----------------------------------------------------------------------------
(* An order is entered, by Enter or by Replace.                            *)

LEMMA EnteredKeeps ==
  ASSUME srv \in Sessions, srv.state = "LoggedIn", past \in [History -> Int],
         NEW g, NEW recs, NEW bk, Core(g, recs, bk, past), NEW tld, ToldAll(tld, g, recs),
         NEW tok \in Tokens, g.token[tok] = 0,
         NEW ref \in Refs, ref = Cardinality(IssuedIn(recs)) + 1,
         NEW order, NEW fills, NEW res, SubmitPost(recs, bk, past, ref, order, fills, res),
         NEW earlier \in Nat, Entered(g, bk, tld, tok, ref, order, res, earlier)
  PROVE  MarketOK'
<1> DEFINE done == Done(res.state)
           b == Bind(g, tok, ref, done)
           p == res.orders
           said == earlier + 1 + ExecutedMessages(b, fills)
           first == [tld EXCEPT ![tok].cancelled = p[ref].cancelled]
           M == MakersPaid(recs, fills)
<1>1. /\ RecordsOK(recs) /\ InOrder(recs) /\ BookOK(bk, recs, past) /\ GatewayOK(g, recs)
      /\ FillsOK(fills, bk, ref) /\ res.fills = fills
      /\ RecordsOK(p) /\ InOrder(p) /\ IssuedIn(p) = IssuedIn(recs) \union {ref}
      /\ BookOK(res.book, p, past)
      /\ p[ref].state = res.state /\ res.state /= "None" /\ p[ref].side = order.side
      /\ p[ref].filled = Shares(fills)
      /\ \A r \in Refs \ {ref} : p[r] = M[r]
      /\ res.book = IF res.resting > 0
                      THEN Added(Executed(bk, fills), ref, order.side, order.price, res.resting)
                      ELSE Executed(bk, fills)
  BY DEF Core, SubmitPost
<1>2. /\ gw' = Pumped(b, p, fills) /\ orders' = p /\ book' = res.book /\ past' = past
      /\ mirror' = Published(bk, ref, order, res)
      /\ told' = TellIf(srv, ToldOfFills(first, b, fills))
      /\ srv' = Speak(srv, said)
  BY <1>1 DEF Entered, Bind
<1>3. /\ recs[ref].state = "None" /\ \A e \in bk : e.ref /= ref
  BY <1>1, NextIsFree
<1>4. /\ TokensOK(b.token, p)
      /\ b = [token |-> b.token, live |-> b.live, position |-> b.position,
              flattened |-> b.flattened]
      /\ b.token[tok] = ref /\ \A t \in Tokens \ {tok} : b.token[t] = g.token[t]
      /\ b.position = g.position
      /\ b.live = IF done THEN g.live ELSE g.live \union {ref}
      /\ Ours(b) = Ours(g) \union {ref} /\ ref \notin Ours(g) /\ Ours(g) \subseteq Refs
  <2>1. IssuedIn(p) = IssuedIn(recs) \union {ref}
    BY <1>1
  <2>2. done \in BOOLEAN
    BY DEF Done
  <2>3. RecordsOK(recs) /\ GatewayOK(g, recs) /\ recs[ref].state = "None"
    BY <1>1, <1>3
  <2> HIDE DEF done, p
  <2> QED BY <2>1, <2>2, <2>3, BindFacts
<1>5. \A f \in fills : f.maker /= ref
  BY <1>1, <1>3 DEF FillsOK
<1>6. /\ ref /= 0
      /\ \A t \in Tokens : /\ b.token[t] /= 0 => b.token[t] \in Refs
                           /\ t /= tok => g.token[t] /= ref
  <2>1. b.token \in [Tokens -> 0..MaxRefs]
    BY <1>4 DEF TokensOK
  <2>2. \A r \in 0..MaxRefs : r /= 0 => r \in Refs
    BY BoundFacts DEF Refs
  <2>3. ref /= 0
    BY BoundFacts
  <2>4. \A t \in Tokens : g.token[t] /= ref
    BY <1>4, <2>3 DEF Ours
  <2> HIDE DEF b
  <2> QED BY <2>1, <2>2, <2>3, <2>4
<1> HIDE DEF b, p, M, done, said
<1>7. \A t \in Tokens :
        /\ Traded(g.token, recs, t) \in Int
        /\ Traded(b.token, p, t) =
             Traded(g.token, recs, t) +
               (IF b.token[t] = 0 THEN 0 ELSE Signed(p[b.token[t]].side, Share(b.token, fills, t)))
        /\ b.token[t] /= 0 =>
             /\ t = tok => p[ref].filled = Share(b.token, fills, t)
             /\ t /= tok => /\ p[b.token[t]].filled = recs[b.token[t]].filled + Share(b.token, fills, t)
                            /\ p[b.token[t]].cancelled = recs[b.token[t]].cancelled
  <2> SUFFICES ASSUME NEW t \in Tokens
        PROVE
        /\ Traded(g.token, recs, t) \in Int
        /\ Traded(b.token, p, t) =
             Traded(g.token, recs, t) +
               (IF b.token[t] = 0 THEN 0 ELSE Signed(p[b.token[t]].side, Share(b.token, fills, t)))
        /\ b.token[t] /= 0 =>
             /\ t = tok => p[ref].filled = Share(b.token, fills, t)
             /\ t /= tok => /\ p[b.token[t]].filled = recs[b.token[t]].filled + Share(b.token, fills, t)
                            /\ p[b.token[t]].cancelled = recs[b.token[t]].cancelled
    OBVIOUS
  <2>1. Share(b.token, fills, t) \in Nat
    BY <1>1, ShareFacts
  <2>2. \A side, n : n \in Int => Signed(side, n) \in Int
    BY SignedAdds
  <2>3. CASE t = tok
    <3>1. b.token[t] = ref /\ ref /= 0 /\ g.token[t] = 0
      BY <1>4, <1>6, <2>3
    <3>2. Share(b.token, fills, t) = Shares(fills)
      BY <1>1, <3>1, TakerShare
    <3>3. Traded(g.token, recs, t) = 0
      BY <3>1 DEF Traded
    <3>4. Traded(b.token, p, t) = Signed(p[ref].side, Share(b.token, fills, t))
      BY <1>1, <3>1, <3>2 DEF Traded, p
    <3>5. p[ref].filled = Share(b.token, fills, t)
      BY <1>1, <3>2 DEF p
    <3>6. Signed(p[ref].side, Share(b.token, fills, t)) \in Int
      BY <2>1, <2>2
    <3> QED BY <2>3, <3>1, <3>3, <3>4, <3>5, <3>6
  <2>4. CASE t /= tok /\ b.token[t] = 0
    <3>1. g.token[t] = 0
      BY <1>4, <2>4
    <3>2. Traded(g.token, recs, t) = 0 /\ Traded(b.token, p, t) = 0
      BY <2>4, <3>1 DEF Traded
    <3> QED BY <2>4, <3>2
  <2>5. CASE t /= tok /\ b.token[t] /= 0
    <3> DEFINE r == b.token[t]
    <3>1. r = g.token[t] /\ r \in Refs /\ r /= ref /\ r /= 0
      BY <1>4, <1>6, <2>5
    <3>2. p[r] = M[r]
      BY <1>1, <3>1 DEF p
    <3>3. /\ Traded(b.token, p, t) =
               Traded(b.token, recs, t) + Signed(p[r].side, Share(b.token, fills, t))
          /\ p[r].filled = recs[r].filled + Share(b.token, fills, t)
          /\ p[r].cancelled = recs[r].cancelled
      BY <1>1, <3>1, <3>2, TradedMoves DEF M
    <3>4. Traded(b.token, recs, t) = Traded(g.token, recs, t)
      BY <3>1 DEF Traded
    <3>5. Traded(g.token, recs, t) \in Int
      <4>1. recs[r].filled \in Int
        BY <1>1, <3>1 DEF RecordsOK, Records
      <4> QED BY <2>2, <3>1, <4>1 DEF Traded
    <3> QED BY <2>5, <3>1, <3>3, <3>4, <3>5
  <2> QED BY <2>3, <2>4, <2>5
<1>8. GatewayOK(gw', p) /\ gw'.token = b.token
  <2> DEFINE old == [t \in Tokens |-> Traded(g.token, recs, t)]
  <2>1. b.position = SumFunctionOnSet(old, Tokens)
    BY <1>1, <1>4 DEF GatewayOK, Held
  <2>2. \A t \in Tokens : old[t] = Traded(g.token, recs, t) /\ old[t] \in Int
    BY <1>7
  <2>3. g.live = {r \in Ours(g) : ~Done(recs[r].state)}
    BY <1>1 DEF GatewayOK
  <2>4. b.live \subseteq Ours(b)
    BY <1>4, <2>3
  <2>5. done <=> Done(p[ref].state)
    BY <1>1 DEF done, p
  <2>6. \A r \in Ours(g) : /\ r \in Refs /\ r /= ref /\ p[r] = M[r]
                           /\ Paid(fills, r) \in Nat
                           /\ Paid(fills, r) = 0 => p[r] = recs[r]
                           /\ Paid(fills, r) > 0 => /\ ~Done(recs[r].state)
                                                    /\ \E f \in fills : r \in {f.taker, f.maker}
    <3> SUFFICES ASSUME NEW r \in Ours(g)
                 PROVE  /\ r \in Refs /\ r /= ref /\ p[r] = M[r]
                        /\ Paid(fills, r) \in Nat
                        /\ Paid(fills, r) = 0 => p[r] = recs[r]
                        /\ Paid(fills, r) > 0 => /\ ~Done(recs[r].state)
                                                 /\ \E f \in fills : r \in {f.taker, f.maker}
      OBVIOUS
    <3>1. r \in Refs /\ r /= ref
      BY <1>4
    <3>2. p[r] = M[r]
      BY <1>1, <3>1 DEF p
    <3>3. /\ Paid(fills, r) \in 0..recs[r].resting
          /\ Paid(fills, r) = 0 => M[r] = recs[r]
          /\ Paid(fills, r) > 0 => recs[r].state \in Working
      BY <1>1, <3>1, MakersPaidFacts DEF M
    <3>4. Paid(fills, r) \in Nat /\ (Paid(fills, r) > 0 => \E f \in fills : f.maker = r)
      BY <1>1, PaidFacts
    <3>5. \A state \in Working : ~Done(state)
      BY DEF Working, Done
    <3> QED BY <3>1, <3>2, <3>3, <3>4, <3>5
  <2>7. \A r \in Ours(b) : ~Done(p[r].state) => r \in b.live
    <3> SUFFICES ASSUME NEW r \in Ours(b), ~Done(p[r].state) PROVE r \in b.live
      OBVIOUS
    <3>1. CASE r = ref
      BY <1>4, <2>5, <3>1
    <3>2. CASE r /= ref
      <4>1. r \in Ours(g)
        BY <1>4, <3>2
      <4>2. ~Done(recs[r].state)
        BY <2>6, <4>1
      <4> QED BY <1>4, <2>3, <4>1, <4>2
    <3> QED BY <3>1, <3>2
  <2>8. \A r \in b.live : Done(p[r].state) => \E f \in fills : r \in {f.taker, f.maker}
    <3> SUFFICES ASSUME NEW r \in b.live, Done(p[r].state)
                 PROVE  \E f \in fills : r \in {f.taker, f.maker}
      OBVIOUS
    <3>1. r /= ref
      BY <1>4, <2>3, <2>5
    <3>2. r \in g.live
      BY <1>4, <3>1
    <3>3. r \in Ours(g) /\ ~Done(recs[r].state)
      BY <2>3, <3>2
    <3>4. Paid(fills, r) > 0
      BY <2>6, <3>3
    <3> QED BY <2>6, <3>3, <3>4
  <2>9. \A t \in Tokens :
          Traded(b.token, p, t) =
            old[t] + (IF b.token[t] = 0 THEN 0
                      ELSE Signed(p[b.token[t]].side, Share(b.token, fills, t)))
    BY <1>7, <2>2
  <2> HIDE DEF old
  <2> QED BY <1>1, <1>2, <1>4, <1>5, <2>1, <2>2, <2>4, <2>7, <2>8, <2>9, PumpedFacts
<1>9. Core(gw', orders', book', past')
  BY <1>1, <1>2, <1>8 DEF Core, p
<1>10. mirror' = book'
  BY <1>1, <1>2 DEF Published
<1>11. srv' \in Sessions /\ srv'.state = "LoggedIn"
  <2>1. ExecutedMessages(b, fills) \in Nat
    BY <1>1, MessagesFacts
  <2>2. said \in Nat
    BY <2>1 DEF said
  <2> QED BY <1>2, <2>2, SpeakFacts
<1>12. ToldAll(told', gw', orders')
  <2> DEFINE T == ToldOfFills(first, b, fills)
  <2>1. told' = T
    BY <1>2 DEF TellIf
  <2>2. DOMAIN T = Tokens /\ T = [t \in Tokens |-> T[t]]
    BY DEF ToldOfFills
  <2>3. DOMAIN tld = Tokens
    BY DEF ToldAll
  <2>4. \A t \in Tokens :
          T[t] = IF b.token[t] = 0 THEN Silence
                 ELSE [executed |-> p[b.token[t]].filled, cancelled |-> p[b.token[t]].cancelled]
    <3> SUFFICES ASSUME NEW t \in Tokens
          PROVE  T[t] = IF b.token[t] = 0 THEN Silence
                 ELSE [executed |-> p[b.token[t]].filled, cancelled |-> p[b.token[t]].cancelled]
      OBVIOUS
    <3>1. tld[t] = IF g.token[t] = 0 THEN Silence
                   ELSE [executed |-> recs[g.token[t]].filled,
                         cancelled |-> recs[g.token[t]].cancelled]
      BY DEF ToldAll
    <3>2. Share(b.token, fills, t) \in Nat
      BY <1>1, ShareFacts
    <3>3. CASE t = tok
      <4> DEFINE c == p[ref].cancelled
      <4>1. first[t] = [executed |-> 0, cancelled |-> c]
        BY <2>3, <3>1, <3>3 DEF Silence
      <4>2. T[t] = [executed |-> 0 + Share(b.token, fills, t), cancelled |-> c]
        <5> HIDE DEF first, c
        <5> QED BY <4>1, ToldFacts
      <4>3. b.token[t] = ref /\ ref /= 0 /\ p[ref].filled = Share(b.token, fills, t)
        BY <1>4, <1>6, <1>7, <3>3
      <4> HIDE DEF T, c
      <4> QED BY <3>2, <4>2, <4>3 DEF c
    <3>4. CASE t /= tok /\ b.token[t] = 0
      <4>1. first[t] = [executed |-> 0, cancelled |-> 0]
        BY <1>4, <2>3, <3>1, <3>4 DEF Silence
      <4>2. T[t] = [executed |-> 0 + Share(b.token, fills, t), cancelled |-> 0]
        <5> HIDE DEF first
        <5> QED BY <4>1, ToldFacts
      <4>3. Share(b.token, fills, t) = 0
        <5>1. {f \in fills : b.token[t] /= 0 /\ b.token[t] \in {f.taker, f.maker}} = {}
          BY <3>4
        <5>2. Shares({}) = 0
          BY SharesFacts, FS_EmptySet
        <5> QED BY <5>1, <5>2 DEF Share
      <4> HIDE DEF T
      <4> QED BY <3>4, <4>2, <4>3 DEF Silence
    <3>5. CASE t /= tok /\ b.token[t] /= 0
      <4> DEFINE r == b.token[t]
                 x == recs[r].filled
                 c == recs[r].cancelled
      <4>1. r = g.token[t]
        BY <1>4, <3>5
      <4>2. first[t] = [executed |-> x, cancelled |-> c]
        BY <2>3, <3>1, <3>5, <4>1
      <4>3. p[r].filled = x + Share(b.token, fills, t) /\ p[r].cancelled = c
        BY <1>7, <3>5
      <4>4. T[t] = [executed |-> x + Share(b.token, fills, t), cancelled |-> c]
        <5> HIDE DEF first, x, c
        <5> QED BY <4>2, ToldFacts
      <4> HIDE DEF T, x, c
      <4> QED BY <3>5, <4>3, <4>4
    <3> QED BY <3>3, <3>4, <3>5
  <2> HIDE DEF T
  <2> QED BY <1>2, <1>8, <2>1, <2>2, <2>4 DEF ToldAll, p
<1> QED BY <1>2, <1>9, <1>10, <1>11, <1>12 DEF MarketOK, ToldOK, Early

-----------------------------------------------------------------------------
(* Records that change under the gateway.                                  *)

LEMMA TokenFacts ==
  ASSUME NEW token, NEW ords, TokensOK(token, ords), NEW t \in Tokens, token[t] /= 0
  PROVE  token[t] \in Refs /\ ords[token[t]].state /= "None"
BY BoundFacts DEF TokensOK, Refs

SameRecords(p, ords) == \A r \in Refs : ords[r].state /= "None" => p[r] = ords[r]

LEMMA GatewaySame ==
  ASSUME NEW g, NEW ords, GatewayOK(g, ords), NEW p, SameRecords(p, ords)
  PROVE  /\ GatewayOK(g, p)
         /\ \A tld : ToldAll(tld, g, ords) => ToldAll(tld, g, p)
<1>1. \A t \in Tokens : g.token[t] /= 0 => p[g.token[t]] = ords[g.token[t]]
  BY TokenFacts DEF GatewayOK, SameRecords
<1>2. TokensOK(g.token, p)
  BY <1>1 DEF GatewayOK, TokensOK
<1>3. \A t \in Tokens : Traded(g.token, p, t) = Traded(g.token, ords, t)
  BY <1>1 DEF Traded
<1>4. Held(g.token, p) = Held(g.token, ords)
  <2> DEFINE h == [t \in Tokens |-> Traded(g.token, p, t)]
             k == [t \in Tokens |-> Traded(g.token, ords, t)]
  <2>1. h = k
    BY <1>3
  <2> HIDE DEF h, k
  <2>2. SumFunctionOnSet(h, Tokens) = SumFunctionOnSet(k, Tokens)
    BY <2>1
  <2> QED BY <2>2 DEF Held, h, k
<1>5. \A r \in Ours(g) : p[r] = ords[r]
  BY <1>1 DEF Ours
<1>6. {r \in Ours(g) : ~Done(p[r].state)} = {r \in Ours(g) : ~Done(ords[r].state)}
  BY <1>5
<1>7. GatewayOK(g, p)
  BY <1>2, <1>4, <1>6 DEF GatewayOK
<1>8. \A tld : ToldAll(tld, g, ords) => ToldAll(tld, g, p)
  BY <1>1 DEF ToldAll
<1> QED BY <1>7, <1>8

\* q is gateway g without the live orders in A.
WithoutLive(q, g, A) ==
  /\ q.token = g.token /\ q.position = g.position /\ q.live = g.live \ A
  /\ q = [token |-> q.token, live |-> q.live, position |-> q.position,
          flattened |-> q.flattened]

LEMMA GatewayWithdraws ==
  ASSUME NEW g, NEW ords, RecordsOK(ords), GatewayOK(g, ords), NEW A \in SUBSET Refs,
         NEW p, p = WithdrawnAll(ords, A), NEW q, WithoutLive(q, g, A)
  PROVE  GatewayOK(q, p)
<1>1. \A r \in Refs : /\ p[r].side = ords[r].side /\ p[r].filled = ords[r].filled
                      /\ ords[r].state /= "None" => p[r].state /= "None"
                      /\ ~Done(p[r].state) <=> r \notin A /\ ~Done(ords[r].state)
  <2> SUFFICES ASSUME NEW r \in Refs
               PROVE  /\ p[r].side = ords[r].side /\ p[r].filled = ords[r].filled
                      /\ ords[r].state /= "None" => p[r].state /= "None"
                      /\ ~Done(p[r].state) <=> r \notin A /\ ~Done(ords[r].state)
    OBVIOUS
  <2>1. p[r] = IF r \in A THEN Withdrawn(ords[r]) ELSE ords[r]
    BY DEF WithdrawnAll
  <2>2. ords[r] \in Records
    BY DEF RecordsOK
  <2>3. CASE r \in A
    <3>1. /\ p[r].state = "Cancelled" /\ p[r].side = ords[r].side
          /\ p[r].filled = ords[r].filled
      BY <2>1, <2>2, <2>3, WithdrawnFacts
    <3> QED BY <2>3, <3>1 DEF Done
  <2>4. CASE r \notin A
    BY <2>1, <2>4
  <2> QED BY <2>3, <2>4
<1>2. \A t \in Tokens : g.token[t] /= 0 => g.token[t] \in Refs
  BY TokenFacts DEF GatewayOK
<1> USE DEF WithoutLive
<1>3. TokensOK(q.token, p)
  BY <1>1, <1>2 DEF GatewayOK, TokensOK
<1>4. \A t \in Tokens : Traded(q.token, p, t) = Traded(g.token, ords, t)
  BY <1>1, <1>2 DEF Traded
<1>5. Held(q.token, p) = Held(g.token, ords)
  <2> DEFINE h == [t \in Tokens |-> Traded(q.token, p, t)]
             k == [t \in Tokens |-> Traded(g.token, ords, t)]
  <2>1. h = k
    BY <1>4
  <2> HIDE DEF h, k
  <2>2. SumFunctionOnSet(h, Tokens) = SumFunctionOnSet(k, Tokens)
    BY <2>1
  <2> QED BY <2>2 DEF Held, h, k
<1>6. Ours(q) = Ours(g) /\ Ours(g) \subseteq Refs
  BY <1>2 DEF Ours
<1>7. q.live = {r \in Ours(q) : ~Done(p[r].state)}
  BY <1>1, <1>6 DEF GatewayOK
<1> QED BY <1>3, <1>5, <1>7 DEF GatewayOK

\* One order of token tok is cancelled, with its shares told.
Cut(tld, tok, n) == [tld EXCEPT ![tok].cancelled = @ + n]

LEMMA ToldOfCancel ==
  ASSUME NEW g, NEW ords, RecordsOK(ords), GatewayOK(g, ords), NEW tok \in Tokens,
         NEW ref, ref = g.token[tok], ref /= 0,
         NEW p, p = WithdrawnAll(ords, {ref}),
         NEW q, q.token = g.token, NEW tld, ToldAll(tld, g, ords)
  PROVE  ToldAll(Cut(tld, tok, ords[ref].resting), q, p)
<1> DEFINE new == [tld EXCEPT ![tok].cancelled = @ + ords[ref].resting]
<1>1. ref \in Refs /\ ords \in [Refs -> Records]
  BY TokenFacts DEF GatewayOK, RecordsOK
<1>2. /\ p[ref] = Withdrawn(ords[ref]) /\ \A r \in Refs \ {ref} : p[r] = ords[r]
      /\ p[ref].filled = ords[ref].filled
      /\ p[ref].cancelled = ords[ref].cancelled + ords[ref].resting
  <2>1. \A r \in Refs : p[r] = IF r = ref THEN Withdrawn(ords[r]) ELSE ords[r]
    BY DEF WithdrawnAll
  <2> QED BY <1>1, <2>1, WithdrawnFacts
<1>3. /\ DOMAIN tld = Tokens
      /\ \A t \in Tokens :
           tld[t] = IF g.token[t] = 0 THEN Silence
                    ELSE [executed |-> ords[g.token[t]].filled,
                          cancelled |-> ords[g.token[t]].cancelled]
  BY DEF ToldAll
<1>4. DOMAIN new = Tokens /\ new = [t \in Tokens |-> new[t]]
  BY DEF ToldAll
<1>5. \A t \in Tokens :
        new[t] = IF q.token[t] = 0 THEN Silence
                 ELSE [executed |-> p[q.token[t]].filled, cancelled |-> p[q.token[t]].cancelled]
  <2> SUFFICES ASSUME NEW t \in Tokens
        PROVE  new[t] = IF q.token[t] = 0 THEN Silence
                 ELSE [executed |-> p[q.token[t]].filled, cancelled |-> p[q.token[t]].cancelled]
    OBVIOUS
  <2>1. CASE t = tok
    <3> DEFINE x == ords[ref].filled
               c == ords[ref].cancelled
               n == ords[ref].resting
    <3>1. tld[t] = [executed |-> x, cancelled |-> c]
      BY <1>3, <2>1
    <3>2. new[t] = [executed |-> x, cancelled |-> c + n]
      <4>1. new[t] = [tld[t] EXCEPT !.cancelled = @ + n]
        BY <1>3, <2>1
      <4> HIDE DEF new, x, c, n
      <4> QED BY <3>1, <4>1
    <3> HIDE DEF new
    <3> QED BY <1>2, <2>1, <3>2
  <2>2. CASE t /= tok
    <3>1. new[t] = tld[t]
      BY <1>3, <2>2
    <3>2. q.token[t] /= 0 => q.token[t] \in Refs /\ q.token[t] /= ref
      BY <2>2, TokenFacts DEF GatewayOK, TokensOK
    <3>3. q.token[t] /= 0 => p[q.token[t]] = ords[g.token[t]]
      BY <1>2, <3>2
    <3> DEFINE x == q.token[t]
    <3>4. x = g.token[t]
      OBVIOUS
    <3>5. new[t] = IF x = 0 THEN Silence
                   ELSE [executed |-> ords[x].filled, cancelled |-> ords[x].cancelled]
      BY <1>3, <3>1, <3>4
    <3> HIDE DEF new, x
    <3>6. x /= 0 => p[x] = ords[x]
      BY <3>3, <3>4 DEF x
    <3>7. new[t] = IF x = 0 THEN Silence
                   ELSE [executed |-> p[x].filled, cancelled |-> p[x].cancelled]
      BY <3>5, <3>6
    <3> QED BY <3>7 DEF x
  <2> QED BY <2>1, <2>2
<1> HIDE DEF new
<1>6. ToldAll(new, q, p)
  BY <1>4, <1>5 DEF ToldAll
<1> QED BY <1>6 DEF new, Cut

-----------------------------------------------------------------------------
(* on_ouch().                                                              *)

LEMMA RejectKeeps ==
  ASSUME MarketOK, Reject
  PROVE  MarketOK' /\ orders' = orders
<1>1. srv' \in Sessions /\ srv'.state = srv.state
  BY SpeakFacts DEF MarketOK, Reject
<1>2. /\ gw' = gw /\ orders' = orders /\ book' = book /\ past' = past /\ mirror' = mirror
      /\ told' = told
  BY DEF Reject
<1>3. Core(gw', orders', book', past') /\ mirror' = book' /\ past' \in [History -> Int]
  BY <1>2 DEF MarketOK
<1>4. ToldOK(srv'.state, told', gw', orders')
  BY <1>1, <1>2 DEF MarketOK
<1> QED BY <1>1, <1>2, <1>3, <1>4 DEF MarketOK

\* What a call does to the numbering: nothing, or one more order.
OneMore == IssuedIn(orders') \in {IssuedIn(orders), IssuedIn(orders) \union {NextRef}}

LEMMA EnterKeeps ==
  ASSUME MarketOK, srv.state = "LoggedIn", NextRef \in Refs,
         NEW tok \in Tokens, NEW order \in OrderSet, OnEnter(tok, order)
  PROVE  MarketOK' /\ OneMore
<1> DEFINE ref == NextRef
           fills == Fills(book, ref, order)
           res == Submitted(orders, book, ref, order, fills)
           refused == \/ gw.token[tok] /= 0
                      \/ kill = "tripped"
                      \/ ~Acceptable(order, gw.position)
<1>1. /\ srv \in Sessions /\ past \in [History -> Int]
      /\ Core(gw, orders, book, past) /\ mirror = book
      /\ ToldAll(told, gw, orders)
      /\ RecordsOK(orders) /\ InOrder(orders) /\ BookOK(book, orders, past)
      /\ GatewayOK(gw, orders)
  BY DEF MarketOK, Core, ToldOK
<1>2. ref \in Refs /\ ref = Cardinality(IssuedIn(orders)) + 1
  BY DEF NextRef, Issued, IssuedIn
<1>3. IF refused THEN Reject
      ELSE IF res.state = "Rejected"
        THEN /\ orders' = res.orders
             /\ srv' = Speak(srv, 1) /\ out' = out \o Spoken(srv, 1)
             /\ UNCHANGED <<gw, book, kill, past, mirror, told>>
        ELSE Entered(gw, mirror, told, tok, ref, order, res, 0)
  BY DEF OnEnter
<1> HIDE DEF fills, res, refused, ref
<1>4. SubmitPost(orders, book, past, ref, order, fills, res)
  BY <1>1, <1>2, SubmittedFacts DEF fills, res
<1>5. CASE refused
  <2>1. Reject
    BY <1>3, <1>5
  <2> QED BY <2>1, RejectKeeps DEF OneMore
<1>6. CASE ~refused /\ res.state = "Rejected"
  <2>1. /\ orders' = res.orders /\ srv' = Speak(srv, 1) /\ gw' = gw /\ book' = book
        /\ past' = past /\ mirror' = mirror /\ told' = told
    BY <1>3, <1>6
  <2>2. /\ RecordsOK(res.orders) /\ InOrder(res.orders) /\ BookOK(book, res.orders, past)
        /\ IssuedIn(res.orders) = IssuedIn(orders) \union {ref}
        /\ \A r \in Refs \ {ref} : res.orders[r] = orders[r]
    BY <1>4, <1>6 DEF SubmitPost
  <2>3. orders[ref].state = "None"
    BY <1>1, <1>2, NextIsFree
  <2>4. SameRecords(res.orders, orders)
    BY <2>2, <2>3 DEF SameRecords
  <2>5. GatewayOK(gw, res.orders) /\ ToldAll(told, gw, res.orders)
    BY <1>1, <2>4, GatewaySame
  <2>6. srv' \in Sessions /\ srv'.state = "LoggedIn"
    BY <1>1, <2>1, SpeakFacts
  <2>7. Core(gw', orders', book', past')
    BY <2>1, <2>2, <2>5 DEF Core
  <2>8. ToldOK(srv'.state, told', gw', orders')
    BY <2>1, <2>5, <2>6 DEF ToldOK, Early
  <2> QED BY <1>1, <2>1, <2>2, <2>6, <2>7, <2>8 DEF MarketOK, OneMore, ref
<1>7. CASE ~refused /\ res.state /= "Rejected"
  <2>1. gw.token[tok] = 0
    BY <1>7 DEF refused
  <2>2. Entered(gw, book, told, tok, ref, order, res, 0)
    BY <1>1, <1>3, <1>7
  <2>3. MarketOK'
    BY <1>1, <1>2, <1>4, <2>1, <2>2, EnteredKeeps
  <2>4. orders' = res.orders
    BY <2>2 DEF Entered
  <2>5. IssuedIn(orders') = IssuedIn(orders) \union {ref}
    BY <1>4, <2>4 DEF SubmitPost
  <2> QED BY <2>3, <2>5 DEF OneMore, ref
<1> QED BY <1>5, <1>6, <1>7

\* The order of a token is withdrawn: what the gateway, the engine and the
\* book hold by then.
Without(g, ref) == [g EXCEPT !.live = @ \ {ref}]

WithdrawalPost(g, ords, bk, pst, tok, ref, tld) ==
  LET p == WithdrawnAll(ords, {ref})
      q == Without(g, ref)
  IN  /\ Core(q, p, Removed(bk, ref), pst) /\ IssuedIn(p) = IssuedIn(ords)
      /\ q.token = g.token
      /\ ToldAll(Cut(tld, tok, ords[ref].resting), q, p)
      /\ p = [ords EXCEPT ![ref] = Withdrawn(@)]

LEMMA WithdrawalKeeps ==
  ASSUME NEW g, NEW ords, NEW bk, NEW pst, Core(g, ords, bk, pst),
         NEW tok \in Tokens, NEW ref, ref = g.token[tok], ref /= 0,
         NEW tld, ToldAll(tld, g, ords)
  PROVE  WithdrawalPost(g, ords, bk, pst, tok, ref, tld)
<1> DEFINE p == WithdrawnAll(ords, {ref})
           q == Without(g, ref)
<1>1. RecordsOK(ords) /\ InOrder(ords) /\ BookOK(bk, ords, pst) /\ GatewayOK(g, ords)
  BY DEF Core
<1>2. ref \in Refs /\ ords[ref].state /= "None"
  BY <1>1, TokenFacts DEF GatewayOK
<1>3. /\ RecordsOK(p) /\ IssuedIn(p) = IssuedIn(ords) /\ BookOK(Removed(bk, ref), p, pst)
      /\ p = [ords EXCEPT ![ref] = Withdrawn(@)]
  BY <1>1, <1>2, OrderLeaves
<1>4. WithoutLive(q, g, {ref})
  <2> DEFINE a == g.token
             b == g.live
             c == g.position
             d == g.flattened
  <2>1. g = [token |-> a, live |-> b, position |-> c, flattened |-> d]
    BY <1>1 DEF GatewayOK
  <2>2. q = [g EXCEPT !.live = b \ {ref}]
    BY DEF Without
  <2> HIDE DEF a, b, c, d, q
  <2>3. q = [token |-> a, live |-> b \ {ref}, position |-> c, flattened |-> d]
    BY <2>1, <2>2
  <2> QED BY <2>3 DEF WithoutLive, a, b, c, d
<1>5. GatewayOK(q, p)
  <2> DEFINE A == {ref}
  <2>1. A \in SUBSET Refs /\ p = WithdrawnAll(ords, A) /\ WithoutLive(q, g, A)
    BY <1>2, <1>4
  <2> HIDE DEF A, p, q
  <2> QED BY <1>1, <2>1, GatewayWithdraws
<1>6. InOrder(p)
  BY <1>1, <1>3 DEF InOrder
<1>7. ToldAll(Cut(tld, tok, ords[ref].resting), q, p)
  BY <1>1, <1>4, ToldOfCancel DEF WithoutLive
<1> HIDE DEF p, q
<1>8. /\ Core(q, p, Removed(bk, ref), pst) /\ q.token = g.token
  BY <1>1, <1>3, <1>4, <1>5, <1>6 DEF Core, WithoutLive
<1> QED BY <1>3, <1>7, <1>8 DEF WithdrawalPost, p, q

LEMMA CancelKeeps ==
  ASSUME MarketOK, srv.state = "LoggedIn", NEW tok \in Tokens, OnCancel(tok)
  PROVE  MarketOK' /\ IssuedIn(orders') = IssuedIn(orders)
<1> DEFINE ref == gw.token[tok]
           idle == ref = 0 \/ Done(orders[ref].state)
           p == WithdrawnAll(orders, {ref})
           q == Without(gw, ref)
           t == Cut(told, tok, orders[ref].resting)
<1>1. CASE idle
  <2>1. UNCHANGED gwVars
    BY <1>1 DEF OnCancel
  <2>2. /\ gw' = gw /\ orders' = orders /\ book' = book /\ past' = past /\ mirror' = mirror
        /\ told' = told /\ srv' = srv
    BY <2>1 DEF gwVars
  <2> QED BY <2>2 DEF MarketOK
<1>2. CASE ~idle
  <2>1. /\ orders' = [orders EXCEPT ![ref] = Withdrawn(@)] /\ book' = Removed(book, ref)
        /\ mirror' = Removed(mirror, ref)
        /\ gw' = q /\ told' = t /\ srv' = Speak(srv, 1) /\ past' = past
    BY <1>2 DEF OnCancel, TellIf, Without, Cut
  <2>2. /\ Core(gw, orders, book, past) /\ ToldAll(told, gw, orders) /\ ref /= 0
        /\ mirror = book /\ srv \in Sessions /\ past \in [History -> Int]
    BY <1>2 DEF MarketOK, ToldOK
  <2>3. /\ Core(q, p, Removed(book, ref), past) /\ IssuedIn(p) = IssuedIn(orders)
        /\ ToldAll(t, q, p) /\ orders' = p
    <3>1. ref = gw.token[tok]
      OBVIOUS
    <3> HIDE DEF ref
    <3>2. WithdrawalPost(gw, orders, book, past, tok, ref, told)
      BY <2>2, <3>1, WithdrawalKeeps
    <3>3. /\ Core(q, p, Removed(book, ref), past) /\ IssuedIn(p) = IssuedIn(orders)
          /\ ToldAll(t, q, p)
          /\ p = [orders EXCEPT ![ref] = Withdrawn(@)]
      BY <3>2, Zenon DEF WithdrawalPost
    <3> HIDE DEF p, q, t
    <3> QED BY <2>1, <3>3
  <2>4. srv' \in Sessions /\ srv'.state = "LoggedIn"
    BY <2>1, <2>2, SpeakFacts
  <2> HIDE DEF p, q, t, ref
  <2>5. ToldOK(srv'.state, told', gw', orders')
    BY <2>1, <2>3, <2>4 DEF ToldOK, Early
  <2> QED BY <2>1, <2>2, <2>3, <2>4, <2>5 DEF MarketOK
<1> QED BY <1>1, <1>2

LEMMA ReplaceKeeps ==
  ASSUME MarketOK, srv.state = "LoggedIn", NextRef \in Refs,
         NEW tok \in Tokens, NEW fresh \in Tokens, NEW order \in OrderSet,
         OnReplace(tok, fresh, order)
  PROVE  MarketOK' /\ OneMore
<1> DEFINE old == gw.token[tok]
           m == orders[old]
           new == [order EXCEPT !.side = m.side, !.stock = TRUE]
           netted == gw.position - Signed(m.side, m.resting)
           recs == WithdrawnAll(orders, {old})
           without == Without(gw, old)
           cut == Cut(told, tok, m.resting)
           ref == NextRef
           left == Removed(book, old)
           fills == Fills(left, ref, new)
           res == Submitted(recs, left, ref, new, fills)
           refused == \/ old = 0 \/ old \notin gw.live
                      \/ gw.token[fresh] /= 0
                      \/ kill = "tripped"
                      \/ ~Acceptable(new, netted)
<1>1. /\ srv \in Sessions /\ past \in [History -> Int]
      /\ Core(gw, orders, book, past) /\ mirror = book
      /\ ToldAll(told, gw, orders) /\ RecordsOK(orders) /\ GatewayOK(gw, orders)
  BY DEF MarketOK, Core, ToldOK
<1>2. ref \in Refs /\ ref = Cardinality(IssuedIn(orders)) + 1
  BY DEF NextRef, Issued, IssuedIn
<1>3. CASE old = 0
  <2>1. Reject
    BY <1>3 DEF OnReplace
  <2> QED BY <2>1, RejectKeeps DEF OneMore
<1>4. ASSUME old /= 0
      PROVE  /\ recs = [orders EXCEPT ![old] = Withdrawn(@)]
             /\ Core(without, recs, left, past) /\ IssuedIn(recs) = IssuedIn(orders)
             /\ without.token = gw.token /\ ToldAll(cut, without, recs)
  <2>1. old = gw.token[tok] /\ m = orders[old]
    OBVIOUS
  <2> HIDE DEF old, m
  <2>2. WithdrawalPost(gw, orders, book, past, tok, old, told)
    BY <1>1, <1>4, <2>1, WithdrawalKeeps
  <2> QED BY <2>1, <2>2 DEF WithdrawalPost
<1>5. ASSUME old /= 0
      PROVE IF refused THEN Reject
            ELSE IF res.state = "Rejected"
              THEN /\ gw' = without /\ orders' = res.orders
                   /\ book' = res.book /\ mirror' = Removed(mirror, old) /\ told' = cut
                   /\ srv' = Speak(srv, 2) /\ out' = out \o Spoken(srv, 2)
                   /\ UNCHANGED <<kill, past>>
              ELSE Entered(without, Removed(mirror, old), cut, fresh, ref, new, res, 1)
  <2> DEFINE withdrawn == [orders EXCEPT ![old] = Withdrawn(@)]
  <2>1. recs = withdrawn
    BY <1>4, <1>5
  <2>2. IF refused THEN Reject
        ELSE LET r == Submitted(withdrawn, left, ref, new, fills)
             IN  IF r.state = "Rejected"
              THEN /\ gw' = without /\ orders' = r.orders
                   /\ book' = r.book /\ mirror' = Removed(mirror, old) /\ told' = cut
                   /\ srv' = Speak(srv, 2) /\ out' = out \o Spoken(srv, 2)
                   /\ UNCHANGED <<kill, past>>
              ELSE Entered(without, Removed(mirror, old), cut, fresh, ref, new, r, 1)
    BY DEF OnReplace, TellIf, Without, Cut
  <2> HIDE DEF recs, withdrawn
  <2> QED BY <2>1, <2>2
<1>6. CASE old /= 0 /\ refused
  <2>1. Reject
    BY <1>5, <1>6
  <2> QED BY <2>1, RejectKeeps DEF OneMore
<1>7. CASE old /= 0 /\ ~refused
  <2>1. old /= 0 /\ gw.token[fresh] = 0
    BY <1>7
  <2>2. old \in Refs
    BY <1>1, <2>1, TokenFacts DEF GatewayOK
  <2>3. new \in OrderSet
    <3>1. m.side \in Sides
      BY <1>1, <2>2 DEF RecordsOK, Records
    <3> HIDE DEF m
    <3> QED BY <3>1 DEF OrderSet
  <2>4. left = Removed(book, old)
    OBVIOUS
  <2> HIDE DEF refused, res, fills, left, recs, without, cut, new, netted, m, old, ref
  <2>5. /\ Core(without, recs, left, past) /\ IssuedIn(recs) = IssuedIn(orders)
        /\ without.token = gw.token /\ ToldAll(cut, without, recs)
    BY <1>4, <2>1
  <2>6. ref = Cardinality(IssuedIn(recs)) + 1
    BY <1>2, <2>5
  <2>7. SubmitPost(recs, left, past, ref, new, fills, res)
    <3>1. RecordsOK(recs) /\ InOrder(recs) /\ BookOK(left, recs, past)
      BY <2>5 DEF Core
    <3> QED BY <1>2, <2>3, <2>6, <3>1, SubmittedFacts DEF fills, res
  <2>8. CASE res.state = "Rejected"
    <3>1. /\ gw' = without /\ orders' = res.orders /\ book' = res.book
          /\ mirror' = left /\ told' = cut /\ srv' = Speak(srv, 2) /\ past' = past
      BY <1>1, <1>5, <1>7, <2>4, <2>8
    <3>2. /\ RecordsOK(res.orders) /\ InOrder(res.orders)
          /\ BookOK(res.book, res.orders, past) /\ res.book = left
          /\ IssuedIn(res.orders) = IssuedIn(recs) \union {ref}
          /\ \A r \in Refs \ {ref} : res.orders[r] = recs[r]
      BY <2>7, <2>8 DEF SubmitPost
    <3>3. recs[ref].state = "None"
      BY <1>2, <2>5, <2>6, NextIsFree DEF Core
    <3>4. SameRecords(res.orders, recs)
      BY <3>2, <3>3 DEF SameRecords
    <3>5. GatewayOK(without, res.orders) /\ ToldAll(cut, without, res.orders)
      BY <2>5, <3>4, GatewaySame DEF Core
    <3>6. srv' \in Sessions /\ srv'.state = "LoggedIn"
      BY <1>1, <3>1, SpeakFacts
    <3>7. Core(gw', orders', book', past')
      BY <3>1, <3>2, <3>5 DEF Core
    <3>8. ToldOK(srv'.state, told', gw', orders')
      BY <3>1, <3>5, <3>6 DEF ToldOK, Early
    <3> QED BY <1>1, <2>5, <3>1, <3>2, <3>6, <3>7, <3>8 DEF MarketOK, OneMore, ref
  <2>9. CASE res.state /= "Rejected"
    <3>1. Entered(without, left, cut, fresh, ref, new, res, 1)
      BY <1>1, <1>5, <1>7, <2>4, <2>9
    <3>2. without.token[fresh] = 0 /\ 1 \in Nat
      BY <2>1, <2>5
    <3>3. MarketOK'
      BY <1>1, <1>2, <2>5, <2>6, <2>7, <3>1, <3>2, EnteredKeeps
    <3>4. orders' = res.orders
      BY <3>1 DEF Entered
    <3>5. IssuedIn(orders') = IssuedIn(orders) \union {ref}
      BY <2>5, <2>7, <3>4 DEF SubmitPost
    <3> QED BY <3>3, <3>5 DEF OneMore, ref
  <2> QED BY <2>8, <2>9
<1> QED BY <1>3, <1>6, <1>7

LEMMA OuchKeeps ==
  ASSUME MarketOK, srv.state = "LoggedIn", NEW f \in Orders \union Cancels,
         f \in Orders => NextRef \in Refs, OnOuch(f)
  PROVE  MarketOK' /\ OneMore /\ (f \in Cancels => IssuedIn(orders') = IssuedIn(orders))
<1>1. CASE f \in Enters
  <2>1. /\ f.ouch = "enter" /\ f.token \in Tokens /\ f.order \in OrderSet
        /\ f \in Orders /\ f \notin Cancels
    BY <1>1 DEF Enters, Orders, Cancels
  <2>2. OnEnter(f.token, f.order)
    BY <2>1 DEF OnOuch
  <2> QED BY <2>1, <2>2, EnterKeeps
<1>2. CASE f \in Replaces
  <2>1. /\ f.ouch = "replace" /\ f.token \in Tokens /\ f.fresh \in Tokens
        /\ f.order \in OrderSet /\ f \in Orders /\ f \notin Cancels
    BY <1>2 DEF Replaces, Orders, Cancels
  <2>2. OnReplace(f.token, f.fresh, f.order)
    BY <2>1 DEF OnOuch
  <2> QED BY <2>1, <2>2, ReplaceKeeps
<1>3. CASE f \in Cancels
  <2>1. f.ouch = "cancel" /\ f.token \in Tokens
    BY <1>3 DEF Cancels
  <2>2. OnCancel(f.token)
    BY <2>1 DEF OnOuch
  <2> QED BY <2>1, <2>2, CancelKeeps DEF OneMore
<1> QED BY <1>1, <1>2, <1>3 DEF Orders

-----------------------------------------------------------------------------
(* The session, and the flatten that ends it.                              *)

\* A session that ended stays so, and none starts anew.
Later(s, t) ==
  /\ t.state \in Early => s.state \in Early
  /\ t.state = "LoggedIn" => s.state \in Early \union {"LoggedIn"}

LEMMA PollKeeps ==
  ASSUME MarketOK, srv' \in Sessions, Later(srv, srv'), PollWith(srv'),
         past' = past, told' = told
  PROVE  MarketOK' /\ IssuedIn(orders') = IssuedIn(orders)
<1>1. /\ past \in [History -> Int] /\ mirror = book /\ ToldOK(srv.state, told, gw, orders)
      /\ Core(gw, orders, book, past) /\ RecordsOK(orders) /\ InOrder(orders)
      /\ BookOK(book, orders, past) /\ GatewayOK(gw, orders)
  BY DEF MarketOK, Core
<1>2. CASE Polled(srv')
  <2> DEFINE A == {r \in gw.live : ~Done(orders[r].state)}
  <2>1. /\ orders' = WithdrawnAll(orders, A)
        /\ book' = {e \in book : e.ref \notin A} /\ mirror' = {e \in mirror : e.ref \notin A}
        /\ gw' = [gw EXCEPT !.live = {}, !.flattened = TRUE]
    BY <1>2 DEF PollWith, WithdrawnAll
  <2>2. A \in SUBSET Refs /\ gw.live \subseteq A /\ \A r \in A : orders[r].state /= "None"
    <3>1. \A r \in Ours(gw) : r \in Refs /\ orders[r].state /= "None"
      <4>1. TokensOK(gw.token, orders)
        BY <1>1 DEF GatewayOK
      <4>2. \A t \in Tokens : gw.token[t] /= 0 =>
              gw.token[t] \in Refs /\ orders[gw.token[t]].state /= "None"
        BY <4>1, TokenFacts
      <4> QED BY <4>2 DEF Ours
    <3>2. gw.live = {r \in Ours(gw) : ~Done(orders[r].state)}
      BY <1>1 DEF GatewayOK
    <3> QED BY <3>1, <3>2
  <2> HIDE DEF A
  <2>3. /\ RecordsOK(orders') /\ IssuedIn(orders') = IssuedIn(orders)
        /\ BookOK(book', orders', past)
    BY <1>1, <2>1, <2>2, OrdersLeave
  <2>4. WithoutLive(gw', gw, A)
    <3> DEFINE a == gw.token
               b == gw.live
               c == gw.position
               d == gw.flattened
    <3>1. gw = [token |-> a, live |-> b, position |-> c, flattened |-> d]
      BY <1>1 DEF GatewayOK
    <3>2. b \ A = {}
      BY <2>2
    <3> HIDE DEF a, b, c, d
    <3>3. gw' = [token |-> a, live |-> {}, position |-> c, flattened |-> TRUE]
      BY <2>1, <3>1
    <3> QED BY <3>2, <3>3 DEF WithoutLive, a, b, c, d
  <2>5. GatewayOK(gw', orders')
    BY <1>1, <2>1, <2>2, <2>4, GatewayWithdraws
  <2>6. Core(gw', orders', book', past') /\ mirror' = book'
    BY <1>1, <2>1, <2>3, <2>5 DEF Core, InOrder
  <2>7. ToldOK(srv'.state, told', gw', orders')
    BY <1>2 DEF ToldOK, Polled, IsTerminal, TerminalStates, Early
  <2> QED BY <1>1, <2>3, <2>6, <2>7 DEF MarketOK
<1>3. CASE ~Polled(srv')
  <2>1. orders' = orders /\ book' = book /\ mirror' = mirror /\ gw' = gw
    BY <1>3 DEF PollWith
  <2>2. ToldOK(srv'.state, told', gw', orders')
    BY <1>1, <2>1 DEF ToldOK, Later
  <2> QED BY <1>1, <2>1, <2>2 DEF MarketOK
<1> QED BY <1>2, <1>3

\* A set of numbers with a largest one.
Topped(T) == T \in SUBSET Nat /\ \E m \in T : \A y \in T : m >= y

LEMMA OneMoreNumber ==
  ASSUME NEW T, Topped(T), NEW n \in Nat
  PROVE  Topped(T \union {n})
<1> DEFINE U == T \union {n}
<1>1. PICK m \in T : \A y \in T : m >= y
  BY DEF Topped
<1>2. m \in Nat /\ T \in SUBSET Nat /\ U \in SUBSET Nat
  BY DEF Topped
<1>3. CASE m >= n
  <2>1. m \in U /\ \A y \in U : m >= y
    BY <1>1, <1>3
  <2> QED BY <1>2, <2>1 DEF Topped
<1>4. CASE ~(m >= n)
  <2>1. \A y \in T : n >= y
    BY <1>1, <1>2, <1>4
  <2>2. n \in U /\ \A y \in U : n >= y
    BY <2>1
  <2> QED BY <1>2, <2>2 DEF Topped
<1> QED BY <1>3, <1>4

LEMMA OldestFacts == Oldest \in Nat /\ HeartbeatAfter <= Oldest
<1> DEFINE T1 == {HeartbeatAfter}
           T2 == T1 \union {ClientDeadAfter}
           T3 == T2 \union {LoginTimeout}
           T4 == T3 \union {ServerDeadAfter}
           T5 == T4 \union {LoginResponseTimeout}
<1>1. /\ HeartbeatAfter \in Nat /\ ClientDeadAfter \in Nat /\ LoginTimeout \in Nat
      /\ ServerDeadAfter \in Nat /\ LoginResponseTimeout \in Nat
  BY TimersAssumption
<1>2. Topped(T1)
  BY <1>1 DEF Topped
<1>3. {HeartbeatAfter, ClientDeadAfter, LoginTimeout, ServerDeadAfter, LoginResponseTimeout} = T5
  OBVIOUS
<1>4. Topped(T5)
  <2> HIDE DEF T1
  <2>1. Topped(T2)
    BY <1>1, <1>2, OneMoreNumber
  <2> HIDE DEF T2
  <2>2. Topped(T3)
    BY <1>1, <2>1, OneMoreNumber
  <2> HIDE DEF T3
  <2>3. Topped(T4)
    BY <1>1, <2>2, OneMoreNumber
  <2> HIDE DEF T4
  <2> QED BY <1>1, <2>3, OneMoreNumber
<1>5. Oldest = Max(T5) /\ HeartbeatAfter \in T5
  BY <1>3 DEF Oldest
<1> HIDE DEF T5
<1>6. Max(T5) \in T5 /\ \A y \in T5 : Max(T5) >= y
  BY <1>4 DEF Max, Topped
<1> QED BY <1>1, <1>4, <1>5, <1>6 DEF Topped

LEMMA SessionShape ==
  ASSUME NEW s \in Sessions
  PROVE  /\ s = [state |-> s.state, sent |-> s.sent, heard |-> s.heard, seq |-> s.seq]
         /\ s.sent \in Nat /\ s.heard \in Nat /\ s.seq \in Nat
         /\ s.state \in Early \union {"LoggedIn"} \union TerminalStates
BY DEF Sessions

LEMMA StateSet ==
  ASSUME NEW s \in Sessions, NEW state \in Early \union {"LoggedIn"} \union TerminalStates
  PROVE  LET t == [s EXCEPT !.state = state]
         IN  t \in Sessions /\ t.state = state
BY DEF Sessions

LEMMA SentFacts ==
  ASSUME NEW s \in Sessions
  PROVE  Sent(s) \in Sessions /\ Sent(s).state = s.state
BY DEF Sessions, Sent

LEMMA OlderFacts ==
  ASSUME NEW s \in Sessions
  PROVE  Older(s) \in Sessions /\ Older(s).state = s.state
<1> DEFINE a == Min({s.sent + 1, Oldest})
           b == Min({s.heard + 1, Oldest})
<1>1. a \in Nat /\ b \in Nat
  BY OldestFacts, MinOfTwo DEF Sessions
<1>2. Older(s) = [s EXCEPT !.sent = a, !.heard = b]
  BY DEF Older, Sessions
<1> HIDE DEF a, b
<1> QED BY <1>1, <1>2 DEF Sessions

LEMMA TickFacts ==
  ASSUME NEW s \in Sessions
  PROVE  ServerTick(s).session \in Sessions /\ Later(s, ServerTick(s).session)
<1> DEFINE t == ServerTimedOut(s)
<1>1. t \in Sessions /\ Later(s, t)
  <2>1. CASE s.state = "AwaitingLogin"
    BY <2>1, StateSet DEF ServerTimedOut, Expired, Later, Early, TerminalStates
  <2>2. CASE s.state = "LoggedIn"
    BY <2>2, StateSet DEF ServerTimedOut, Expired, Later, Early, TerminalStates
  <2>3. CASE s.state \notin {"AwaitingLogin", "LoggedIn"}
    BY <2>3 DEF ServerTimedOut, Later
  <2> QED BY <2>1, <2>2, <2>3
<1>2. ServerTick(s).session \in {t, Sent(t)}
  BY DEF ServerTick
<1> HIDE DEF t
<1>3. Sent(t) \in Sessions /\ Sent(t).state = t.state
  BY <1>1, SentFacts
<1> QED BY <1>1, <1>2, <1>3 DEF Later

LEMMA DispatchFacts ==
  ASSUME NEW s \in Sessions, NEW type
  PROVE  /\ ServerDispatch(s, type) \in Sessions /\ Later(s, ServerDispatch(s, type))
         /\ type = "U" /\ ServerDispatch(s, type).state = "LoggedIn" =>
              s.state = "LoggedIn" /\ ServerDispatch(s, type) = s
<1>1. \/ ServerDispatch(s, type) = s
      \/ /\ s.state = "AwaitingLogin" /\ type = "L"
         /\ ServerDispatch(s, type) = [s EXCEPT !.state = "LoginReceived"]
      \/ ServerDispatch(s, type) = [s EXCEPT !.state = "Ended"]
      \/ ServerDispatch(s, type) = [s EXCEPT !.state = "ProtocolViolation"]
  BY DEF ServerDispatch
<1>2. \A state \in {"LoginReceived", "Ended", "ProtocolViolation"} :
        LET t == [s EXCEPT !.state = state]
        IN  t \in Sessions /\ t.state = state
  BY StateSet DEF Early, TerminalStates
<1>3. CASE ServerDispatch(s, type) = s
  BY <1>3 DEF Later
<1>4. CASE /\ s.state = "AwaitingLogin" /\ type = "L"
           /\ ServerDispatch(s, type) = [s EXCEPT !.state = "LoginReceived"]
  BY <1>2, <1>4 DEF Later, Early
<1>5. CASE ServerDispatch(s, type) = [s EXCEPT !.state = "Ended"]
  BY <1>2, <1>5 DEF Later, Early
<1>6. CASE ServerDispatch(s, type) = [s EXCEPT !.state = "ProtocolViolation"]
  BY <1>2, <1>6 DEF Later, Early
<1> QED BY <1>1, <1>3, <1>4, <1>5, <1>6

\* The end of a read, with the answer to a login.
LEMMA EndReadFacts ==
  ASSUME NEW s \in Sessions, NEW before
  PROVE  LET h == Heard(s, before)
             t == IF h.state = "LoginReceived" THEN LoginAccepted(h) ELSE h
         IN  t \in Sessions /\ Later(s, t)
<1> DEFINE h == Heard(s, before)
<1>1. h \in Sessions /\ h.state = s.state
  BY DEF Heard, Sessions
<1> HIDE DEF h
<1>2. LoginAccepted(h) \in Sessions /\ LoginAccepted(h).state = "LoggedIn"
  <2>1. LET t == [h EXCEPT !.state = "LoggedIn"]
        IN  t \in Sessions /\ t.state = "LoggedIn"
    BY <1>1, StateSet
  <2> QED BY <2>1, SentFacts DEF LoginAccepted
<1>3. CASE h.state = "LoginReceived"
  BY <1>1, <1>2, <1>3 DEF Later, Early, h
<1>4. CASE h.state /= "LoginReceived"
  BY <1>1, <1>4 DEF Later, h
<1> QED BY <1>3, <1>4 DEF h

-----------------------------------------------------------------------------
(* The feed.                                                               *)

\* A step of the feed that does not trade.
LEMMA FeedMoves ==
  ASSUME MarketOK, srv' = srv, gw' = gw, orders' = orders, told' = told,
         past' \in [History -> Int], BookOK(book', orders, past'), mirror' = book'
  PROVE  MarketOK'
<1>1. Core(gw', orders', book', past')
  BY DEF MarketOK, Core
<1>2. ToldOK(srv'.state, told', gw', orders')
  BY DEF MarketOK
<1> QED BY <1>1, <1>2 DEF MarketOK

LEMMA AddsKeeps ==
  ASSUME MarketOK, NEW ref \in History, NEW side, NEW price, NEW shares \in Nat \ {0},
         FeedAdds(ref, side, price, shares)
  PROVE  MarketOK' /\ orders' = orders
<1>1. /\ past[ref] = -1 /\ past' = [past EXCEPT ![ref] = shares]
      /\ book' = Added(book, ref, side, price, shares)
      /\ mirror' = Added(mirror, ref, side, price, shares)
      /\ srv' = srv /\ gw' = gw /\ orders' = orders /\ told' = told
  BY DEF FeedAdds
<1>2. past \in [History -> Int] /\ mirror = book /\ BookOK(book, orders, past)
  BY DEF MarketOK, Core
<1>3. \A e \in book : e.ref /= ref
  <2>1. \A e \in book : e.ref = ref => past[ref] >= 0
    BY <1>2 DEF BookOK
  <2> QED BY <1>1, <2>1
<1>4. BookOK(book', orders, past')
  BY <1>1, <1>2, <1>3, HistoryJoins
<1>5. past' \in [History -> Int]
  BY <1>1, <1>2
<1> QED BY <1>1, <1>2, <1>4, <1>5, FeedMoves

LEMMA LessFacts ==
  ASSUME NEW ords, NEW pst, NEW bk, BookOK(bk, ords, pst), NEW ref \in History,
         NEW n \in Nat \ {0}
  PROVE  BookOK(Less(bk, ref, n), ords, pst)
<1> DEFINE K == {f \in bk : f.ref = ref /\ f.shares > n}
           g == [e \in K |-> [e EXCEPT !.shares = @ - n]]
           A == {e \in bk : e.ref /= ref}
           B == {g[e] : e \in K}
<1>1. Less(bk, ref, n) = A \union B
  BY DEF Less
<1>2. A \in SUBSET bk /\ K \in SUBSET bk /\ IsFiniteSet(bk) /\ \A e \in bk : EntryOK(e)
  BY DEF BookOK
<1>3. \A e \in K : /\ EntryOK(g[e]) /\ g[e].ref = ref
                   /\ e \in bk /\ e.ref = ref
  <2> SUFFICES ASSUME NEW e \in K PROVE EntryOK(g[e]) /\ g[e].ref = ref /\ e \in bk /\ e.ref = ref
    OBVIOUS
  <2> DEFINE m == e.shares - n
  <2>1. EntryOK(e) /\ e.shares > n /\ e \in bk /\ e.ref = ref
    BY <1>2
  <2>2. m \in Nat \ {0}
    BY <2>1 DEF EntryOK
  <2>3. g[e] = [e EXCEPT !.shares = m]
    OBVIOUS
  <2> HIDE DEF m, g
  <2>4. g[e] = [ref |-> e.ref, side |-> e.side, price |-> e.price, shares |-> m,
                place |-> e.place]
    BY <2>1, <2>3 DEF EntryOK
  <2> QED BY <2>1, <2>2, <2>4 DEF EntryOK
<1>4. \A e \in B : \E d \in K : e = g[d]
  OBVIOUS
<1>5. \A e \in A : e.ref /= ref
  OBVIOUS
<1>6. \A e \in bk : e.ref /= ref => e \in A
  OBVIOUS
<1>7. IsFiniteSet(A \union B)
  <2>1. IsFiniteSet(A) /\ IsFiniteSet(K)
    BY <1>2, FS_Subset
  <2> HIDE DEF g, K
  <2>2. IsFiniteSet(B)
    BY <2>1, ImageFinite
  <2> QED BY <2>1, <2>2, FS_Union
<1> HIDE DEF K, g, A, B
<1>8. \A e \in B : /\ EntryOK(e) /\ e.ref = ref /\ e.ref \notin Refs
                   /\ \E d \in bk : d.ref = ref
  BY <1>3, <1>4, BoundFacts
<1>9. \A e, f \in B : e = f
  <2> SUFFICES ASSUME NEW e \in B, NEW f \in B PROVE e = f
    OBVIOUS
  <2>1. PICK c \in K : e = g[c]
    BY <1>4
  <2>2. PICK d \in K : f = g[d]
    BY <1>4
  <2>3. c = d
    BY <1>3 DEF BookOK
  <2> QED BY <2>1, <2>2, <2>3
<1>10. \A e \in A \union B : /\ EntryOK(e)
                             /\ e.ref \in Refs => e.shares = ords[e.ref].resting
                             /\ e.ref \in History => pst[e.ref] >= 0
  <2>1. \A d \in bk : d.ref = ref => pst[ref] >= 0
    BY DEF BookOK
  <2> QED BY <1>2, <1>8, <2>1 DEF BookOK
<1>11. \A e, f \in A \union B : e.ref = f.ref => e = f
  BY <1>2, <1>5, <1>8, <1>9 DEF BookOK
<1>12. \A r \in Refs : ords[r].resting > 0 => \E e \in A \union B : e.ref = r
  BY <1>6, BoundFacts DEF BookOK
<1>13. BookOK(A \union B, ords, pst)
  BY <1>7, <1>10, <1>11, <1>12 DEF BookOK
<1> QED BY <1>1, <1>13

LEMMA ReducesKeeps ==
  ASSUME MarketOK, NEW ref \in History, NEW n, FeedReduces(ref, n)
  PROVE  MarketOK' /\ orders' = orders
<1>1. /\ n \in 1..past[ref] /\ past' = [past EXCEPT ![ref] = past[ref] - n]
      /\ book' = Less(book, ref, n) /\ mirror' = Less(mirror, ref, n)
      /\ srv' = srv /\ gw' = gw /\ orders' = orders /\ told' = told
  BY DEF FeedReduces
<1>2. past \in [History -> Int] /\ mirror = book /\ BookOK(book, orders, past)
  BY DEF MarketOK, Core
<1>3. n \in Nat \ {0} /\ past[ref] - n \in Nat
  BY <1>1, <1>2
<1>4. BookOK(book', orders, past)
  BY <1>1, <1>2, <1>3, LessFacts
<1>5. past' \in [History -> Int]
  BY <1>1, <1>2, <1>3
<1>6. BookOK(book', orders, past')
  <2> DEFINE k == past[ref] - n
  <2>1. k \in Nat /\ past' = [past EXCEPT ![ref] = k]
    BY <1>1, <1>3
  <2> HIDE DEF k
  <2> QED BY <1>2, <1>4, <2>1, PastMoves
<1> QED BY <1>1, <1>2, <1>5, <1>6, FeedMoves

LEMMA DeletesKeeps ==
  ASSUME MarketOK, NEW ref \in History, FeedDeletes(ref)
  PROVE  MarketOK' /\ orders' = orders
<1>1. /\ past' = [past EXCEPT ![ref] = 0]
      /\ book' = Removed(book, ref) /\ mirror' = Removed(mirror, ref)
      /\ srv' = srv /\ gw' = gw /\ orders' = orders /\ told' = told
  BY DEF FeedDeletes
<1>2. past \in [History -> Int] /\ mirror = book /\ BookOK(book, orders, past)
  BY DEF MarketOK, Core
<1>3. BookOK(book', orders, past)
  BY <1>1, <1>2, HistoryLeaves
<1>4. past' \in [History -> Int]
  BY <1>1, <1>2
<1>5. BookOK(book', orders, past')
  <2> DEFINE k == 0
  <2>1. k \in Nat /\ past' = [past EXCEPT ![ref] = k]
    BY <1>1
  <2> HIDE DEF k
  <2> QED BY <1>2, <1>3, <2>1, PastMoves
<1> QED BY <1>1, <1>2, <1>4, <1>5, FeedMoves

LEMMA ReplacesKeeps ==
  ASSUME MarketOK, NEW old \in History, NEW new \in History, NEW price,
         NEW shares \in Nat \ {0}, FeedReplaces(old, new, price, shares)
  PROVE  MarketOK' /\ orders' = orders
<1> DEFINE gone == [past EXCEPT ![old] = 0]
           moved(bk) == {Added(Removed(bk, old), new, e.side, price, shares) :
                           e \in {f \in bk : f.ref = old}}
           after(bk) == IF moved(bk) = {} THEN bk ELSE CHOOSE b \in moved(bk) : TRUE
<1>1. /\ past[old] > 0 /\ past[new] = -1 /\ past' = [past EXCEPT ![old] = 0, ![new] = shares]
      /\ book' = after(book) /\ mirror' = after(mirror)
      /\ srv' = srv /\ gw' = gw /\ orders' = orders /\ told' = told
  BY DEF FeedReplaces
<1>2. past \in [History -> Int] /\ mirror = book /\ BookOK(book, orders, past)
  BY DEF MarketOK, Core
<1>3. mirror' = book'
  BY <1>1, <1>2, Zenon
<1>4. /\ gone \in [History -> Int] /\ past' = [gone EXCEPT ![new] = shares]
      /\ BookOK(book, orders, gone)
  <2> DEFINE k == 0
  <2>1. k \in Nat /\ gone = [past EXCEPT ![old] = k]
    OBVIOUS
  <2>2. gone \in [History -> Int] /\ past' = [gone EXCEPT ![new] = shares]
    BY <1>1, <1>2
  <2> HIDE DEF k, gone
  <2>3. BookOK(book, orders, gone)
    BY <1>2, <2>1, PastMoves
  <2> QED BY <2>2, <2>3
<1>5. \A e \in book : e.ref /= new
  <2>1. \A e \in book : e.ref = new => past[new] >= 0
    BY <1>2 DEF BookOK
  <2> QED BY <1>1, <2>1
<1>6. past' \in [History -> Int]
  BY <1>4
<1> HIDE DEF gone
<1>7. BookOK(book', orders, past')
  <2>1. CASE moved(book) = {}
    <3>1. book' = book
      BY <1>1, <2>1
    <3>2. BookOK(book, orders, [gone EXCEPT ![new] = shares])
      BY <1>4, PastMoves
    <3> QED BY <1>4, <3>1, <3>2
  <2>2. CASE moved(book) /= {}
    <3>1. after(book) \in moved(book)
      BY <2>2
    <3>2. book' \in moved(book)
      BY <1>1, <3>1, Zenon
    <3>3. PICK e \in book : book' = Added(Removed(book, old), new, e.side, price, shares)
      BY <3>2
    <3>4. BookOK(Removed(book, old), orders, gone)
      BY <1>4, HistoryLeaves
    <3>5. \A f \in Removed(book, old) : f.ref /= new
      BY <1>5 DEF Removed
    <3> QED BY <1>4, <3>3, <3>4, <3>5, HistoryJoins
  <2> QED BY <2>1, <2>2
<1> QED BY <1>1, <1>3, <1>6, <1>7, FeedMoves

\* The gateway's orders are hit by an aggressor of the feed, whose number is 0.
LEMMA HitsKeep ==
  ASSUME NEW ords, RecordsOK(ords), NEW pst, NEW bk, BookOK(bk, ords, pst),
         NEW g, GatewayOK(g, ords), NEW fills, FillsOK(fills, bk, 0),
         \A f \in fills : f.maker /= 0,
         NEW p, p = MakersPaid(ords, fills), NEW tld
  PROVE  /\ GatewayOK(Pumped(g, p, fills), p)
         /\ Pumped(g, p, fills).token = g.token
         /\ ToldAll(tld, g, ords) => ToldAll(ToldOfFills(tld, g, fills), Pumped(g, p, fills), p)
<1> DEFINE q == Pumped(g, p, fills)
<1>1. /\ g = [token |-> g.token, live |-> g.live, position |-> g.position,
              flattened |-> g.flattened]
      /\ TokensOK(g.token, ords)
      /\ g.live = {r \in Ours(g) : ~Done(ords[r].state)}
  BY DEF GatewayOK
<1>2. \A t \in Tokens : g.token[t] /= 0 =>
        g.token[t] \in Refs /\ ords[g.token[t]].state /= "None"
  BY <1>1, TokenFacts
<1>3. /\ RecordsOK(p) /\ IssuedIn(p) = IssuedIn(ords)
      /\ \A r \in Refs : /\ Paid(fills, r) \in Nat
                         /\ Paid(fills, r) = 0 => p[r] = ords[r]
                         /\ Paid(fills, r) > 0 => ords[r].state \in Working
  BY MakersPaidFacts, PaidFacts
<1>4. TokensOK(g.token, p)
  <2>1. \A t \in Tokens : g.token[t] /= 0 => p[g.token[t]].state /= "None"
    BY <1>2, <1>3 DEF IssuedIn
  <2> QED BY <1>1, <2>1 DEF TokensOK
<1>5. \A t \in Tokens : g.token[t] /= 0 =>
        /\ Traded(g.token, p, t) =
             Traded(g.token, ords, t) + Signed(p[g.token[t]].side, Share(g.token, fills, t))
        /\ p[g.token[t]].filled = ords[g.token[t]].filled + Share(g.token, fills, t)
        /\ p[g.token[t]].cancelled = ords[g.token[t]].cancelled
        /\ Traded(g.token, ords, t) \in Int
  <2> SUFFICES ASSUME NEW t \in Tokens, g.token[t] /= 0
        PROVE
        /\ Traded(g.token, p, t) =
             Traded(g.token, ords, t) + Signed(p[g.token[t]].side, Share(g.token, fills, t))
        /\ p[g.token[t]].filled = ords[g.token[t]].filled + Share(g.token, fills, t)
        /\ p[g.token[t]].cancelled = ords[g.token[t]].cancelled
        /\ Traded(g.token, ords, t) \in Int
    OBVIOUS
  <2> DEFINE token == g.token
  <2>1. token[t] \in Refs /\ token[t] /= 0
    BY <1>2
  <2>2. ords[token[t]].filled \in Int
    BY <2>1 DEF RecordsOK, Records
  <2>3. Traded(token, ords, t) \in Int
    BY <2>1, <2>2, SignedAdds DEF Traded
  <2> HIDE DEF token
  <2>4. /\ Traded(token, p, t) =
             Traded(token, ords, t) + Signed(p[token[t]].side, Share(token, fills, t))
        /\ p[token[t]].filled = ords[token[t]].filled + Share(token, fills, t)
        /\ p[token[t]].cancelled = ords[token[t]].cancelled
    BY <2>1, TradedMoves
  <2> QED BY <2>3, <2>4 DEF token
<1>6. \A t \in Tokens : g.token[t] = 0 => Traded(g.token, p, t) = 0 /\ Traded(g.token, ords, t) = 0
  BY DEF Traded
<1>7. GatewayOK(q, p) /\ q.token = g.token
  <2> DEFINE old == [t \in Tokens |-> Traded(g.token, ords, t)]
  <2>1. g.position = SumFunctionOnSet(old, Tokens)
    BY DEF GatewayOK, Held
  <2>2. \A t \in Tokens : old[t] = Traded(g.token, ords, t) /\ old[t] \in Int
    BY <1>5, <1>6
  <2>3. g.live \subseteq Ours(g)
    BY <1>1
  <2>4. \A r \in Ours(g) : r \in Refs
    BY <1>2 DEF Ours
  <2>5. \A state \in Working : ~Done(state)
    BY DEF Working, Done
  <2>6. \A r \in Ours(g) : ~Done(p[r].state) => r \in g.live
    BY <1>1, <1>3, <2>4, <2>5
  <2>7. \A r \in g.live : Done(p[r].state) => \E f \in fills : r \in {f.taker, f.maker}
    <3>1. \A r \in g.live : Done(p[r].state) => Paid(fills, r) /= 0
      BY <1>1, <1>3, <2>3, <2>4
    <3>2. \A r : Paid(fills, r) /= 0 => \E f \in fills : f.maker = r
      BY PaidFacts
    <3> QED BY <3>1, <3>2
  <2>8. \A t \in Tokens :
          Traded(g.token, p, t) =
            old[t] + (IF g.token[t] = 0 THEN 0
                      ELSE Signed(p[g.token[t]].side, Share(g.token, fills, t)))
    BY <1>5, <1>6, <2>2
  <2> HIDE DEF old
  <2> QED BY <1>1, <1>4, <2>1, <2>2, <2>3, <2>6, <2>7, <2>8, PumpedFacts
<1>8. ASSUME ToldAll(tld, g, ords)
      PROVE  ToldAll(ToldOfFills(tld, g, fills), q, p)
  <2> DEFINE T == ToldOfFills(tld, g, fills)
  <2>1. DOMAIN T = Tokens /\ T = [t \in Tokens |-> T[t]]
    BY DEF ToldOfFills
  <2>2. \A t \in Tokens :
          T[t] = IF g.token[t] = 0 THEN Silence
                 ELSE [executed |-> p[g.token[t]].filled, cancelled |-> p[g.token[t]].cancelled]
    <3> SUFFICES ASSUME NEW t \in Tokens
          PROVE  T[t] = IF g.token[t] = 0 THEN Silence
                 ELSE [executed |-> p[g.token[t]].filled, cancelled |-> p[g.token[t]].cancelled]
      OBVIOUS
    <3>1. tld[t] = IF g.token[t] = 0 THEN Silence
                   ELSE [executed |-> ords[g.token[t]].filled,
                         cancelled |-> ords[g.token[t]].cancelled]
      BY <1>8 DEF ToldAll
    <3>2. CASE g.token[t] = 0
      <4>1. tld[t] = [executed |-> 0, cancelled |-> 0]
        BY <3>1, <3>2 DEF Silence
      <4>2. T[t] = [executed |-> 0 + Share(g.token, fills, t), cancelled |-> 0]
        BY <4>1, ToldFacts
      <4>3. Share(g.token, fills, t) = 0
        <5>1. {f \in fills : g.token[t] /= 0 /\ g.token[t] \in {f.taker, f.maker}} = {}
          BY <3>2
        <5>2. Shares({}) = 0
          BY SharesFacts, FS_EmptySet
        <5> QED BY <5>1, <5>2 DEF Share
      <4> HIDE DEF T
      <4> QED BY <3>2, <4>2, <4>3 DEF Silence
    <3>3. CASE g.token[t] /= 0
      <4> DEFINE r == g.token[t]
                 x == ords[r].filled
                 c == ords[r].cancelled
      <4>1. tld[t] = [executed |-> x, cancelled |-> c]
        BY <3>1, <3>3
      <4>2. p[r].filled = x + Share(g.token, fills, t) /\ p[r].cancelled = c
        BY <1>5, <3>3
      <4>3. T[t] = [executed |-> x + Share(g.token, fills, t), cancelled |-> c]
        <5> HIDE DEF x, c
        <5> QED BY <4>1, ToldFacts
      <4> HIDE DEF T, x, c
      <4> QED BY <3>3, <4>2, <4>3
    <3> QED BY <3>2, <3>3
  <2> HIDE DEF T, q
  <2> QED BY <1>7, <2>1, <2>2 DEF ToldAll, T
<1> QED BY <1>7, <1>8

LEMMA ExecutesKeeps ==
  ASSUME MarketOK, NEW ref \in History, NEW n, FeedExecutes(ref, n)
  PROVE  MarketOK' /\ IssuedIn(orders') = IssuedIn(orders)
<1>1. /\ n \in 1..past[ref] /\ past' = [past EXCEPT ![ref] = past[ref] - n]
  BY DEF FeedExecutes
<1>2. /\ past \in [History -> Int] /\ mirror = book /\ srv \in Sessions
      /\ RecordsOK(orders) /\ InOrder(orders) /\ BookOK(book, orders, past)
      /\ GatewayOK(gw, orders) /\ ToldOK(srv.state, told, gw, orders)
  BY DEF MarketOK, Core
<1>3. n \in Nat \ {0} /\ past[ref] - n \in Nat
  BY <1>1, <1>2
<1>4. past' \in [History -> Int]
  BY <1>1, <1>2, <1>3
<1>5. ASSUME NEW bk, NEW ords, BookOK(bk, ords, past) PROVE BookOK(bk, ords, past')
  <2> DEFINE k == past[ref] - n
  <2>1. k \in Nat /\ past' = [past EXCEPT ![ref] = k]
    BY <1>1, <1>3
  <2> HIDE DEF k
  <2> QED BY <1>2, <1>5, <2>1, PastMoves
<1>6. CASE ~\E o \in book : o.ref = ref
  <2>1. /\ srv' = srv /\ gw' = gw /\ orders' = orders /\ told' = told
        /\ book' = book /\ mirror' = mirror
    BY <1>6 DEF FeedExecutes
  <2> QED BY <1>2, <1>4, <1>5, <2>1, FeedMoves
<1>7. CASE \E o \in book : o.ref = ref
  <2> DEFINE o == CHOOSE e \in book : e.ref = ref
             R == InFront(o)
             before(e) == Shares({f \in InFront(o) : f.place < e.place})
             take(e) == IF before(e) >= n THEN 0 ELSE Min({e.shares, n - before(e)})
             tk == [e \in R |-> take(e)]
             fills == {Fill(0, e, take(e)) : e \in {f \in R : take(f) > 0}}
             left == n - Shares(fills)
             extra == IF left > 0 THEN {Fill(0, o, left)} ELSE {}
             prints == fills \union extra
             said == ExecutedMessages(gw, fills)
  <2>1. /\ orders' = MakersPaid(orders, fills)
        /\ book' = Executed(book, prints) /\ mirror' = Executed(mirror, prints)
        /\ gw' = Pumped(gw, orders', fills)
        /\ told' = TellIf(srv, ToldOfFills(told, gw, fills))
        /\ srv' = Speak(srv, said)
    BY <1>7 DEF FeedExecutes
  <2>2. o \in book /\ o.ref = ref
    BY <1>7
  <2>3. R \in SUBSET book /\ \A e \in R : e.ref \in Refs
    BY DEF InFront, IsStrategyRef
  <2>4. fills = {Fill(0, e, tk[e]) : e \in {f \in R : tk[f] > 0}}
    <3>1. \A e \in R : tk[e] = take(e)
      OBVIOUS
    <3> HIDE DEF R, tk, take
    <3> QED BY <3>1
  <2>5. \A e \in R : tk[e] \in 0..e.shares
    <3> SUFFICES ASSUME NEW e \in R PROVE tk[e] \in 0..e.shares
      OBVIOUS
    <3> DEFINE A == {f \in InFront(o) : f.place < e.place}
               ahead == Shares(A)
    <3>1. e.shares \in Nat /\ \A f \in A : f.shares \in Nat
      BY <1>2, <2>3 DEF BookOK, EntryOK
    <3>2. IsFiniteSet(A)
      <4>1. A \in SUBSET book /\ IsFiniteSet(book)
        BY <1>2, <2>3 DEF BookOK
      <4> QED BY <4>1, FS_Subset
    <3>3. tk[e] = IF ahead >= n THEN 0 ELSE Min({e.shares, n - ahead})
      OBVIOUS
    <3> HIDE DEF A, ahead, tk
    <3>4. ahead \in Nat
      BY <3>1, <3>2, SharesFacts DEF ahead
    <3>5. CASE ahead >= n
      BY <3>1, <3>3, <3>5
    <3>6. CASE ~(ahead >= n)
      <4> DEFINE x == n - ahead
      <4>1. x \in Nat
        BY <1>3, <3>4, <3>6
      <4> HIDE DEF x
      <4>2. Min({e.shares, x}) \in 0..e.shares
        BY <3>1, <4>1, MinOfTwo
      <4> QED BY <3>3, <3>6, <4>2 DEF x
    <3> QED BY <3>5, <3>6
  <2>6. \A f \in fills : f.maker \in Refs /\ f.maker /= 0 /\ f.maker /= ref
    <3>1. \A k : \A e \in R : Fill(0, e, k).maker = e.ref
      BY DEF Fill
    <3>2. \A r \in Refs : r /= 0 /\ r /= ref
      BY BoundFacts
    <3> HIDE DEF R, tk, fills
    <3>3. \A f \in fills : \E e \in R : f = Fill(0, e, tk[e])
      BY <2>4
    <3>4. \A f \in fills : \E e \in R : f.maker = e.ref
      BY <3>1, <3>3
    <3> QED BY <2>3, <3>2, <3>4
  <2> HIDE DEF R, tk, fills
  <2>7. FillsOK(fills, book, 0)
    BY <1>2, <2>3, <2>4, <2>5, FillsFrom
  <2>8. \A f \in extra : /\ f.taker = 0 /\ f.shares \in Nat \ {0} /\ f.maker = ref
                         /\ f = Fill(0, o, left)
    <3>1. Shares(fills) \in Nat
      BY <2>7, SharesFacts DEF FillsOK
    <3>2. left \in Int
      BY <1>3, <3>1
    <3> HIDE DEF left, o
    <3> QED BY <2>2, <3>2 DEF Fill
  <2>9. IsFiniteSet(extra)
    BY FS_EmptySet, FS_Singleton
  <2> HIDE DEF o, left, extra
  <2>10. FillsOK(prints, book, 0)
    <3>1. IsFiniteSet(prints)
      BY <2>7, <2>9, FS_Union DEF FillsOK
    <3>2. \A f \in prints :
            /\ f.taker = 0 /\ f.shares \in Nat \ {0}
            /\ \E e \in book : e.ref = f.maker /\ (e.ref \in Refs => f.shares <= e.shares)
      <4>1. ref \notin Refs
        BY BoundFacts
      <4> QED BY <2>2, <2>7, <2>8, <4>1 DEF FillsOK
    <3>3. \A f, h \in prints : f.maker = h.maker => f = h
      BY <2>6, <2>7, <2>8 DEF FillsOK
    <3> QED BY <3>1, <3>2, <3>3 DEF FillsOK
  <2>11. MakersPaid(orders, prints) = MakersPaid(orders, fills)
    <3>1. \A r \in Refs : {f \in prints : f.maker = r} = {f \in fills : f.maker = r}
      <4>1. \A r \in Refs : r /= ref
        BY BoundFacts
      <4> QED BY <2>8, <4>1
    <3> HIDE DEF prints
    <3> QED BY <3>1 DEF MakersPaid
  <2> HIDE DEF prints
  <2>12. BookOK(book', orders', past')
    <3>1. BookOK(Executed(book, prints), MakersPaid(orders, prints), past)
      BY <1>2, <2>10, ExecutedKeeps
    <3>2. BookOK(book', orders', past)
      BY <2>1, <2>11, <3>1
    <3> QED BY <1>5, <3>2
  <2>13. /\ RecordsOK(orders') /\ IssuedIn(orders') = IssuedIn(orders) /\ InOrder(orders')
    BY <1>2, <2>1, <2>7, MakersPaidFacts DEF InOrder
  <2>14. /\ GatewayOK(gw', orders') /\ gw'.token = gw.token
         /\ ToldAll(told, gw, orders) => ToldAll(ToldOfFills(told, gw, fills), gw', orders')
    BY <1>2, <2>1, <2>6, <2>7, HitsKeep
  <2>15. Core(gw', orders', book', past') /\ mirror' = book'
    BY <1>2, <2>1, <2>12, <2>13, <2>14 DEF Core
  <2>16. srv' \in Sessions /\ srv'.state = srv.state
    <3>1. said \in Nat
      BY <2>7, MessagesFacts
    <3> HIDE DEF said
    <3> QED BY <1>2, <2>1, <3>1, SpeakFacts
  <2>17. ToldOK(srv'.state, told', gw', orders')
    <3>1. CASE srv.state = "LoggedIn"
      <4>1. told' = ToldOfFills(told, gw, fills)
        BY <2>1, <3>1 DEF TellIf
      <4> QED BY <1>2, <2>14, <2>16, <3>1, <4>1 DEF ToldOK, Early
    <3>2. CASE srv.state /= "LoggedIn"
      <4>1. told' = told
        BY <2>1, <3>2 DEF TellIf
      <4>2. srv.state \in Early => ToldAll(told', gw', orders')
        <5> SUFFICES ASSUME srv.state \in Early PROVE ToldAll(told', gw', orders')
          OBVIOUS
        <5>1. \A t \in Tokens : gw.token[t] = 0 /\ gw'.token[t] = 0
          BY <1>2, <2>14 DEF ToldOK
        <5>2. ToldAll(told, gw, orders)
          BY <1>2 DEF ToldOK
        <5> QED BY <4>1, <5>1, <5>2 DEF ToldAll
      <4>3. srv.state \in Early => \A t \in Tokens : gw'.token[t] = 0
        BY <1>2, <2>14 DEF ToldOK
      <4> QED BY <2>16, <3>2, <4>2, <4>3 DEF ToldOK
    <3> QED BY <3>1, <3>2
  <2> QED BY <1>4, <2>13, <2>15, <2>16, <2>17 DEF MarketOK
<1> QED BY <1>6, <1>7

-----------------------------------------------------------------------------
(* Counting places in a sequence.                                          *)

ShiftedBy(m, B) == {m + i : i \in B}

LEMMA ShiftedCount ==
  ASSUME NEW m \in Nat, NEW B \in SUBSET Nat, IsFiniteSet(B),
         NEW T, T = ShiftedBy(m, B)
  PROVE  IsFiniteSet(T) /\ Cardinality(T) = Cardinality(B)
<1> DEFINE f == [i \in B |-> m + i]
<1>1. f \in [B -> T] /\ \A i \in B : f[i] = m + i
  BY DEF ShiftedBy
<1>2. \A i, j \in B : f[i] = f[j] => i = j
  BY <1>1
<1>3. \A t \in T : \E i \in B : f[i] = t
  BY DEF ShiftedBy
<1> HIDE DEF f
<1>4. f \in Bijection(B, T)
  BY <1>1, <1>2, <1>3, Zenon DEF Bijection, Injection, Surjection, IsInjective
<1>5. ExistsBijection(B, T)
  BY <1>4 DEF ExistsBijection
<1> QED BY <1>5, FS_Bijection

\* U is A, a set of places among m, and B, a set of places among n after those.
Placed(U, A, m, B, n) ==
  A \subseteq 1..m /\ B \subseteq 1..n /\ U = A \union ShiftedBy(m, B)

LEMMA CountsAdd ==
  ASSUME NEW m \in Nat, NEW n \in Nat, NEW A, NEW B, NEW U, Placed(U, A, m, B, n)
  PROVE  Cardinality(U) = Cardinality(A) + Cardinality(B)
<1> DEFINE T == ShiftedBy(m, B)
<1> USE DEF Placed
<1>1. IsFiniteSet(A) /\ IsFiniteSet(B)
  <2>1. IsFiniteSet(1..m) /\ IsFiniteSet(1..n)
    BY FS_Interval
  <2> QED BY <2>1, FS_Subset
<1>2. B \in SUBSET Nat
  OBVIOUS
<1>3. A \intersect T = {}
  BY DEF ShiftedBy
<1>4. IsFiniteSet(T) /\ Cardinality(T) = Cardinality(B)
  BY <1>1, <1>2, ShiftedCount
<1>5. U = A \union T
  OBVIOUS
<1> HIDE DEF T
<1>6. Cardinality(A \union T) = Cardinality(A) + Cardinality(T) - Cardinality(A \intersect T)
  BY <1>1, <1>4, FS_Union
<1>7. Cardinality(A \intersect T) = 0
  BY <1>3, FS_EmptySet
<1>8. Cardinality(A) \in Nat /\ Cardinality(T) \in Nat
  BY <1>1, <1>4, FS_CardinalityType
<1>9. Cardinality(U) = Cardinality(A \union T)
  BY <1>5, Zenon
<1> QED BY <1>4, <1>6, <1>7, <1>8, <1>9

-----------------------------------------------------------------------------
(* The frames on their way.                                                *)

Entering(f) == f.type = "U" /\ f.ouch /= "cancel"

LEMMA PlainFrame ==
  /\ \A type \in {"L", "R"} : Frame(type) \in Plain /\ Frame(type) \in Frames
  /\ \A f \in Plain : f.type /= "U"
<1>1. \A type \in {"L", "R"} : Frame(type) \in Plain
  BY DEF Frame, Plain
<1>2. \A name \in DOMAIN Scenarios : "U" \notin Scenarios[name].last
  BY ScenariosAssumption
<1>3. \A f \in Plain : f.type /= "U"
  BY <1>2 DEF Plain
<1> QED BY <1>1, <1>3 DEF Frames

LEMMA FrameFacts ==
  ASSUME NEW f \in Frames
  PROVE  /\ f \in Plain => f.type /= "U" /\ ~Entering(f)
         /\ f \in Orders => f.type = "U" /\ Entering(f)
         /\ f \in Cancels => f.type = "U" /\ ~Entering(f)
         /\ f \in Plain \/ f \in Orders \/ f \in Cancels
<1>1. f \in Plain => f.type /= "U"
  BY PlainFrame
<1>2. f \in Enters \union Replaces => f.type = "U" /\ f.ouch /= "cancel"
  BY DEF Enters, Replaces
<1>3. f \in Cancels => f.type = "U" /\ f.ouch = "cancel"
  BY DEF Cancels
<1> QED BY <1>1, <1>2, <1>3 DEF Frames, Orders, Entering

LEMMA PendingType ==
  ASSUME NEW q \in Seq(Frames)
  PROVE  Pending(q) \in Nat
<1>1. DOMAIN q = 1..Len(q) /\ Len(q) \in Nat
  BY LenProperties
<1> DEFINE A == {i \in DOMAIN q : q[i].type = "U" /\ q[i].ouch /= "cancel"}
<1>2. IsFiniteSet(A)
  <2>1. IsFiniteSet(1..Len(q)) /\ A \in SUBSET (1..Len(q))
    BY <1>1, FS_Interval
  <2> QED BY <2>1, FS_Subset
<1> QED BY <1>2, FS_CardinalityType DEF Pending

LEMMA PendingConcat ==
  ASSUME NEW p \in Seq(Frames), NEW q \in Seq(Frames)
  PROVE  Pending(p \o q) = Pending(p) + Pending(q)
<1> DEFINE m == Len(p)
           n == Len(q)
           r == p \o q
           A == {i \in 1..m : Entering(p[i])}
           B == {i \in 1..n : Entering(q[i])}
           U == {i \in 1..(m + n) : Entering(r[i])}
<1>1. m \in Nat /\ n \in Nat /\ DOMAIN p = 1..m /\ DOMAIN q = 1..n
  BY LenProperties
<1>2. /\ r \in Seq(Frames) /\ Len(r) = m + n
      /\ \A i \in 1..(m + n) : r[i] = IF i <= m THEN p[i] ELSE q[i - m]
  BY ConcatProperties
<1>3. DOMAIN r = 1..(m + n)
  BY <1>2, LenProperties
<1> HIDE DEF m, n, r
<1>4. \A i \in 1..m : i \in 1..(m + n) /\ r[i] = p[i]
  BY <1>1, <1>2
<1>5. \A i \in 1..n : m + i \in 1..(m + n) /\ r[m + i] = q[i]
  BY <1>1, <1>2
<1>6. \A i \in 1..(m + n) : i \in 1..m \/ \E j \in 1..n : i = m + j
  <2> SUFFICES ASSUME NEW i \in 1..(m + n), i \notin 1..m PROVE \E j \in 1..n : i = m + j
    OBVIOUS
  <2>1. i - m \in 1..n /\ i = m + (i - m)
    BY <1>1
  <2> QED BY <2>1
<1>7. U = A \union ShiftedBy(m, B)
  BY <1>4, <1>5, <1>6 DEF ShiftedBy
<1>8. Cardinality(U) = Cardinality(A) + Cardinality(B)
  <2>1. Placed(U, A, m, B, n)
    <3>1. A \subseteq 1..m /\ B \subseteq 1..n
      OBVIOUS
    <3> HIDE DEF A, B, U
    <3> QED BY <1>7, <3>1 DEF Placed
  <2> HIDE DEF A, B, U
  <2> QED BY <1>1, <2>1, CountsAdd
<1> QED BY <1>1, <1>3, <1>8 DEF Pending, Entering, r

LEMMA PendingOne ==
  ASSUME NEW f \in Frames
  PROVE  <<f>> \in Seq(Frames) /\ Pending(<<f>>) = IF Entering(f) THEN 1 ELSE 0
<1>1. /\ <<f>> \in Seq(Frames) /\ Len(<<f>>) = 1 /\ <<f>>[1] = f /\ DOMAIN <<f>> = 1..1
  OBVIOUS
<1>2. {i \in 1..1 : Entering(<<f>>[i])} = IF Entering(f) THEN {1} ELSE {}
  BY <1>1
<1>3. Pending(<<f>>) = Cardinality(IF Entering(f) THEN {1} ELSE {})
  BY <1>1, <1>2 DEF Pending, Entering
<1> QED BY <1>1, <1>3, FS_EmptySet, FS_Singleton

LEMMA PendingNone == << >> \in Seq(Frames) /\ Pending(<< >>) = 0
<1>1. {i \in DOMAIN << >> : << >>[i].type = "U" /\ << >>[i].ouch /= "cancel"} = {}
  OBVIOUS
<1> QED BY <1>1, FS_EmptySet DEF Pending

LEMMA PendingTail ==
  ASSUME NEW q \in Seq(Frames), q /= << >>
  PROVE  /\ Head(q) \in Frames /\ Tail(q) \in Seq(Frames)
         /\ Pending(q) = Pending(Tail(q)) + (IF Entering(Head(q)) THEN 1 ELSE 0)
<1> DEFINE f == Head(q)
           t == Tail(q)
<1>1. f \in Frames /\ t \in Seq(Frames) /\ q = <<f>> \o t
  OBVIOUS
<1> HIDE DEF f, t
<1>2. Pending(q) = Pending(<<f>>) + Pending(t)
  BY <1>1, PendingOne, PendingConcat
<1>3. Pending(<<f>>) = IF Entering(f) THEN 1 ELSE 0
  BY <1>1, PendingOne
<1>4. Pending(t) \in Nat
  BY <1>1, PendingType
<1> QED BY <1>1, <1>2, <1>3, <1>4 DEF f, t

LEMMA PendingSplit ==
  ASSUME NEW q \in Seq(Frames), NEW n \in 0..Len(q)
  PROVE  LET p == SubSeq(q, 1, n)
             r == SubSeq(q, n + 1, Len(q))
         IN  p \in Seq(Frames) /\ r \in Seq(Frames) /\ Pending(q) = Pending(p) + Pending(r)
<1> DEFINE p == SubSeq(q, 1, n)
           r == SubSeq(q, n + 1, Len(q))
<1>1. Len(q) \in Nat /\ \A i \in 1..Len(q) : q[i] \in Frames
  BY LenProperties, ElementOfSeq
<1>2. p \in Seq(Frames) /\ r \in Seq(Frames)
  BY <1>1, SubSeqProperties
<1>3. p \o r = q
  <2>2. SubSeq(q, 1, n) \o SubSeq(q, n + 1, Len(q)) = SubSeq(q, 1, Len(q))
    <3> DEFINE l == Len(q)
               k == 1
    <3>1. k \in 1..(Len(q) + 1) /\ n \in (k - 1)..Len(q) /\ l \in n..Len(q)
      BY <1>1
    <3> HIDE DEF k, l
    <3>2. SubSeq(q, k, n) \o SubSeq(q, n + 1, l) = SubSeq(q, k, l)
      BY <3>1, ConcatAdjacentSubSeq
    <3> QED BY <3>2 DEF k, l
  <2> QED BY <2>2, SubSeqFull
<1> HIDE DEF p, r
<1>4. Pending(q) = Pending(p) + Pending(r)
  BY <1>2, <1>3, PendingConcat
<1> QED BY <1>2, <1>4 DEF p, r

LEMMA ScenarioFacts ==
  ASSUME scenario \in DOMAIN Scenarios
  PROVE  /\ S.orders \subseteq OrderSet /\ S.replacements \subseteq OrderSet
         /\ \A o \in S.history : o.shares \in Nat \ {0}
         /\ S.entered \in Nat /\ S.entered <= MaxRefs
         /\ \A t \in 1..S.tokens : t \in Tokens
         /\ S.connections \in 0..2
         /\ \A type \in S.last : Frame(type) \in Plain
<1> DEFINE s == Scenarios[scenario]
<1>1. /\ s.orders \union s.replacements \subseteq OrderSet
      /\ s.history \subseteq [side : Sides, price : Nat, shares : Nat \ {0}]
      /\ s.tokens \in 0..MaxTokens /\ s.entered \in 0..MaxRefs /\ s.connections \in 0..2
      /\ "U" \notin s.last
  BY ScenariosAssumption
<1>2. S = s
  BY DEF S
<1>4. \A type \in s.last : Frame(type) \in Plain
  BY DEF Frame, Plain
<1> HIDE DEF s
<1>3. \A t \in 1..s.tokens : t \in Tokens
  BY <1>1, BoundFacts DEF Tokens
<1>5. s.entered \in Nat /\ s.entered <= MaxRefs
  BY <1>1, BoundFacts
<1>6. \A o \in s.history : o.shares \in Nat \ {0}
  BY <1>1
<1> QED BY <1>1, <1>2, <1>3, <1>4, <1>5, <1>6

LEMMA AskedFacts ==
  ASSUME FramesOK, MarketOK
  PROVE  /\ Cardinality(IssuedIn(orders)) \in Nat /\ Pending(chunk) \in Nat
         /\ toServer[1] \in Seq(Frames) /\ toServer[2] \in Seq(Frames)
         /\ Pending(toServer[1]) \in Nat /\ Pending(toServer[2]) \in Nat
         /\ Cardinality(IssuedIn(orders)) + Pending(chunk) + Pending(toServer[1])
              + Pending(toServer[2]) <= S.entered
         /\ S.entered \in Nat /\ S.entered <= MaxRefs
<1>1. Cardinality(IssuedIn(orders)) \in Nat
  <2>1. IssuedIn(orders) \in SUBSET Refs
    BY DEF IssuedIn
  <2> QED BY <2>1, BoundFacts, FS_Subset, FS_CardinalityType
<1>2. toServer[1] \in Seq(Frames) /\ toServer[2] \in Seq(Frames) /\ chunk \in Seq(Frames)
  BY DEF FramesOK, Connections
<1>3. Asked <= S.entered /\ Issued = IssuedIn(orders)
  BY DEF FramesOK, Issued, IssuedIn
<1>4. Asked = Cardinality(IssuedIn(orders)) + Pending(chunk) + Pending(toServer[1])
                + Pending(toServer[2])
  BY <1>3 DEF Asked
<1>5. S.entered \in Nat /\ S.entered <= MaxRefs
  BY ScenarioFacts DEF FramesOK
<1> QED BY <1>1, <1>2, <1>3, <1>4, <1>5, PendingType

\* The frames keep their bound when they are no more, the new orders included.
Underway(ords, ch, ts) ==
  Cardinality(IssuedIn(ords)) + Pending(ch) + Pending(ts[1]) + Pending(ts[2])

\* The terms of Underway as plain numbers: what leaves a queue for the chunk.
LEMMA UnderwayMoves ==
  ASSUME NEW i \in Nat, NEW c \in Nat, NEW a \in Nat, NEW b \in Nat, NEW m \in Nat,
         NEW i1 \in Nat, NEW c1 \in Nat, NEW a1 \in Nat, NEW b1 \in Nat,
         i + c + a + b <= m,
         \/ i1 = i /\ c1 + a1 <= a + c /\ b1 = b
         \/ i1 = i /\ c1 + b1 <= b + c /\ a1 = a
  PROVE  i1 + c1 + a1 + b1 <= m
  OBVIOUS

LEMMA FramesKeep ==
  ASSUME FramesOK, scenario' = scenario, conn' \in 0..2, chunk' \in Seq(Frames),
         toServer' \in [Connections -> Seq(Frames)],
         Underway(orders', chunk', toServer') <= S.entered
  PROVE  FramesOK'
<1>1. S' = S
  BY DEF S
<1>2. Asked' = Underway(orders', chunk', toServer')
  BY DEF Asked, Underway, Issued, IssuedIn, Pending
<1>3. Asked' <= S'.entered
  BY <1>1, <1>2
<1> QED BY <1>3 DEF FramesOK

LEMMA FramesSame ==
  ASSUME FramesOK, MarketOK, scenario' = scenario, conn' \in 0..2, chunk' = chunk,
         toServer' = toServer, IssuedIn(orders') = IssuedIn(orders)
  PROVE  FramesOK'
<1>1. Underway(orders', chunk', toServer') = Underway(orders, chunk, toServer)
  BY DEF Underway
<1>2. Underway(orders, chunk, toServer) <= S.entered
  BY AskedFacts DEF Underway
<1>3. chunk \in Seq(Frames) /\ toServer \in [Connections -> Seq(Frames)]
  BY DEF FramesOK
<1> QED BY <1>1, <1>2, <1>3, FramesKeep

LEMMA SendFacts ==
  ASSUME FramesOK, MarketOK, NEW c \in Connections, NEW q \in Seq(Frames), Send(c, q),
         scenario' = scenario, conn' = conn, chunk' = chunk, orders' = orders,
         Pending(q) > 0 => Asked < S.entered /\ Pending(q) = 1
  PROVE  FramesOK'
<1>1. toServer' = [toServer EXCEPT ![c] = toServer[c] \o q]
  BY DEF Send
<1>2. toServer \in [Connections -> Seq(Frames)] /\ conn \in 0..2 /\ chunk \in Seq(Frames)
  BY DEF FramesOK
<1>3. /\ toServer[c] \o q \in Seq(Frames)
      /\ Pending(toServer[c] \o q) = Pending(toServer[c]) + Pending(q)
      /\ Pending(q) \in Nat
  BY <1>2, PendingConcat, PendingType, ConcatProperties
<1>4. toServer' \in [Connections -> Seq(Frames)]
  BY <1>1, <1>2, <1>3
<1>5. Underway(orders', chunk', toServer') = Underway(orders, chunk, toServer) + Pending(q)
  <2> DEFINE n == Pending(q)
             x == toServer[c] \o q
  <2>1. n \in Nat /\ Pending(x) = Pending(toServer[c]) + n /\ toServer' = [toServer EXCEPT ![c] = x]
    BY <1>1, <1>3
  <2> HIDE DEF n, x
  <2>2. CASE c = 1
    <3>1. toServer'[1] = x /\ toServer'[2] = toServer[2]
      BY <1>2, <2>1, <2>2 DEF Connections
    <3> QED BY <2>1, <2>2, <3>1, AskedFacts DEF Underway, n
  <2>3. CASE c = 2
    <3>1. toServer'[2] = x /\ toServer'[1] = toServer[1]
      BY <1>2, <2>1, <2>3 DEF Connections
    <3> QED BY <2>1, <2>3, <3>1, AskedFacts DEF Underway, n
  <2> QED BY <2>2, <2>3 DEF Connections
<1>6. Asked = Underway(orders, chunk, toServer)
  BY DEF Asked, Underway, Issued, IssuedIn
<1>7. Underway(orders, chunk, toServer) \in Nat /\ Underway(orders, chunk, toServer) <= S.entered
      /\ S.entered \in Nat
  BY AskedFacts DEF Underway
<1>8. Underway(orders', chunk', toServer') <= S.entered
  <2> DEFINE u == Underway(orders, chunk, toServer)
             v == Underway(orders', chunk', toServer')
             n == Pending(q)
             m == S.entered
  <2>1. v = u + n /\ u \in Nat /\ m \in Nat /\ n \in Nat /\ u <= m /\ (n > 0 => u < m /\ n = 1)
    BY <1>3, <1>5, <1>6, <1>7
  <2> HIDE DEF u, v, n, m
  <2>2. v <= m
    BY <2>1
  <2> QED BY <2>2 DEF v, m
<1> QED BY <1>2, <1>4, <1>8, FramesKeep

\* What a step on the client's side or of the loop leaves of the market.
LEMMA MarketSame ==
  ASSUME MarketOK, UNCHANGED <<gw, orders, book, past, mirror, told>>,
         srv' \in Sessions, Later(srv, srv')
  PROVE  MarketOK' /\ IssuedIn(orders') = IssuedIn(orders)
<1>1. ToldOK(srv'.state, told', gw', orders')
  BY DEF MarketOK, ToldOK, Later
<1> QED BY <1>1 DEF MarketOK

LEMMA AllSame ==
  ASSUME MarketOK, UNCHANGED gwVars
  PROVE  MarketOK' /\ IssuedIn(orders') = IssuedIn(orders) /\ orders' = orders
<1>1. /\ UNCHANGED <<gw, orders, book, past, mirror, told>> /\ srv' = srv
  BY DEF gwVars
<1>2. srv' \in Sessions /\ Later(srv, srv')
  BY <1>1 DEF MarketOK, Later
<1> QED BY <1>1, <1>2, MarketSame

LEMMA NewGatewayFacts ==
  ASSUME NEW ords
  PROVE  /\ GatewayOK(NewGateway, ords) /\ \A t \in Tokens : NewGateway.token[t] = 0
         /\ ToldAll([t \in Tokens |-> Silence], NewGateway, ords)
<1> DEFINE g == NewGateway
<1>1. /\ g = [token |-> g.token, live |-> g.live, position |-> g.position,
              flattened |-> g.flattened]
      /\ g.token = [t \in Tokens |-> 0] /\ g.live = {} /\ g.position = 0
  BY DEF NewGateway
<1> HIDE DEF g
<1>2. \A t \in Tokens : g.token[t] = 0
  BY <1>1
<1>3. TokensOK(g.token, ords)
  BY <1>1, <1>2, BoundFacts DEF TokensOK
<1>4. Ours(g) = {}
  BY <1>2 DEF Ours
<1>5. Held(g.token, ords) = 0
  <2> DEFINE h == [t \in Tokens |-> Traded(g.token, ords, t)]
  <2>1. \A t \in Tokens : h[t] = 0
    BY <1>2 DEF Traded
  <2> HIDE DEF h
  <2>2. SumFunctionOnSet(h, Tokens) = 0
    BY <2>1, BoundFacts, SumZeros
  <2> QED BY <2>2 DEF Held, h
<1>6. GatewayOK(g, ords)
  BY <1>1, <1>3, <1>4, <1>5 DEF GatewayOK
<1>7. ToldAll([t \in Tokens |-> Silence], g, ords)
  BY <1>2 DEF ToldAll
<1> QED BY <1>2, <1>6, <1>7 DEF g

-----------------------------------------------------------------------------
(* The loop.                                                               *)

LEMMA TickKeeps ==
  ASSUME IInv, Tick
  PROVE  IInv'
<1>1. /\ UNCHANGED <<kill, past, told, scenario, conn, peerGone, feedDone, chunk, entered, torn,
                     wireVars>>
      /\ MarketOK /\ FramesOK
  BY DEF Tick, IInv
<1>2. /\ past' = past /\ told' = told /\ scenario' = scenario /\ conn' = conn
      /\ chunk' = chunk /\ toServer' = toServer
  BY <1>1 DEF wireVars
<1>3. MarketOK' /\ IssuedIn(orders') = IssuedIn(orders)
  <2>1. CASE Server \in due /\ srv /= NoSession
    <3>1. srv' = ServerTick(srv).session /\ PollWith(srv')
      BY <2>1 DEF Tick
    <3>2. srv' \in Sessions /\ Later(srv, srv')
      BY <1>1, <3>1, TickFacts DEF MarketOK
    <3> QED BY <1>1, <1>2, <3>1, <3>2, PollKeeps
  <2>2. CASE ~(Server \in due /\ srv /= NoSession)
    <3>1. UNCHANGED <<srv, out, orders, book, mirror, gw>>
      BY <2>2 DEF Tick
    <3>2. /\ UNCHANGED <<gw, orders, book, past, mirror, told>>
          /\ srv' \in Sessions /\ Later(srv, srv')
      BY <1>1, <1>2, <3>1 DEF MarketOK, Later
    <3> QED BY <1>1, <3>2, MarketSame
  <2> QED BY <2>1, <2>2
<1>4. FramesOK'
  BY <1>1, <1>2, <1>3, FramesSame DEF FramesOK
<1> QED BY <1>3, <1>4 DEF IInv

LEMMA AcceptKeeps ==
  ASSUME IInv, Accept
  PROVE  IInv'
<1> DEFINE c == Min(Waiting)
<1>1. /\ UNCHANGED <<orders, book, kill, past, out, mirror, scenario, peerGone, feedDone, chunk,
                     entered, due, cli, toServer, toClient>>
      /\ Waiting /= {} /\ conn' = c /\ srv' = ServerOpened /\ gw' = NewGateway
      /\ told' = [t \in Tokens |-> Silence]
      /\ MarketOK /\ FramesOK
  BY DEF Accept, IInv
<1>2. c \in 0..2
  <2>1. Waiting \subseteq {1, 2}
    BY DEF Waiting, Connections
  <2>2. \E x \in Waiting : \A y \in Waiting : x <= y
    <3> DEFINE W == Waiting
    <3>1. W \subseteq {1, 2} /\ W /= {}
      BY <1>1, <2>1
    <3> HIDE DEF W
    <3>2. CASE 1 \in W
      <4>1. \A y \in W : 1 <= y
        BY <3>1
      <4> QED BY <3>2, <4>1 DEF W
    <3>3. CASE 1 \notin W
      <4>1. \A y \in W : y = 2
        BY <3>1, <3>3
      <4>2. PICK y \in W : TRUE
        BY <3>1
      <4>3. y = 2
        BY <4>1
      <4>4. 2 \in W
        BY <4>3
      <4>5. \A x \in W : 2 <= x
        BY <4>1
      <4> QED BY <4>4, <4>5 DEF W
    <3> QED BY <3>2, <3>3
  <2>3. c \in Waiting
    BY <2>2 DEF Min
  <2> HIDE DEF c
  <2>4. c \in {1, 2}
    BY <2>1, <2>3
  <2> QED BY <2>4
<1>3. srv' \in Sessions /\ srv'.state = "AwaitingLogin"
  BY <1>1 DEF ServerOpened, Opened, Sessions, Early
<1>4. /\ GatewayOK(gw', orders') /\ \A t \in Tokens : gw'.token[t] = 0
      /\ ToldAll(told', gw', orders')
  BY <1>1, NewGatewayFacts
<1>5. Core(gw', orders', book', past') /\ mirror' = book' /\ past' \in [History -> Int]
  BY <1>1, <1>4 DEF MarketOK, Core
<1>6. ToldOK(srv'.state, told', gw', orders')
  BY <1>3, <1>4 DEF ToldOK
<1>7. MarketOK'
  BY <1>3, <1>5, <1>6 DEF MarketOK
<1>8. FramesOK'
  <2>1. IssuedIn(orders') = IssuedIn(orders)
    BY <1>1
  <2> HIDE DEF c
  <2> QED BY <1>1, <1>2, <2>1, FramesSame
<1> QED BY <1>7, <1>8 DEF IInv

LEMMA ReadKeeps ==
  ASSUME IInv, Read
  PROVE  IInv'
<1>1. /\ UNCHANGED <<gwVars, scenario, conn, peerGone, feedDone, due, cli, link, toClient>>
      /\ conn /= 0 /\ MarketOK /\ FramesOK
  BY DEF Read, IInv
<1>2. PICK n \in Pieces(toServer[conn]) \ (IF torn THEN {0} ELSE {}) :
        /\ chunk' = SubSeq(toServer[conn], 1, n)
        /\ toServer' = [toServer EXCEPT ![conn] = SubSeq(@, n + 1, Len(@))]
  BY DEF Read
<1> DEFINE q == toServer[conn]
           r == SubSeq(q, n + 1, Len(q))
<1>3. /\ conn \in Connections /\ toServer \in [Connections -> Seq(Frames)] /\ q \in Seq(Frames)
      /\ conn' = conn /\ scenario' = scenario
  BY <1>1 DEF FramesOK, Connections
<1>4. Len(q) \in Nat
  BY <1>3, LenProperties
<1>5. n \in 0..Len(q)
  BY <1>2, <1>4 DEF Pieces
<1>6. toServer' = [toServer EXCEPT ![conn] = r]
  BY <1>2
<1>7. chunk' \in Seq(Frames) /\ r \in Seq(Frames) /\ Pending(q) = Pending(chunk') + Pending(r)
  <2> HIDE DEF q
  <2>1. chunk' = SubSeq(q, 1, n)
    BY <1>2 DEF q
  <2> QED BY <1>3, <1>5, <2>1, PendingSplit
<1> HIDE DEF r
<1>8. MarketOK' /\ IssuedIn(orders') = IssuedIn(orders)
  BY <1>1, AllSame
<1>9. toServer' \in [Connections -> Seq(Frames)]
  BY <1>3, <1>6, <1>7
<1>10. Underway(orders', chunk', toServer') <= S.entered
  <2>1. Pending(chunk') \in Nat /\ Pending(r) \in Nat
    BY <1>7, PendingType
  <2>2. CASE conn = 1
    <3>1. toServer'[1] = r /\ toServer'[2] = toServer[2] /\ q = toServer[1]
      BY <1>3, <1>6, <2>2 DEF Connections
    <3> HIDE DEF q
    <3>2. Pending(toServer[1]) = Pending(chunk') + Pending(toServer'[1])
      BY <1>7, <3>1
    <3> DEFINE k == Pending(chunk') + Pending(toServer'[1])
    <3>3. k <= Pending(toServer[1]) + Pending(chunk)
      BY <1>1, <2>1, <3>1, <3>2, AskedFacts
    <3> HIDE DEF k
    <3> QED BY <1>1, <1>8, <2>1, <3>1, <3>3, AskedFacts, UnderwayMoves DEF Underway, k
  <2>3. CASE conn = 2
    <3>1. toServer'[2] = r /\ toServer'[1] = toServer[1] /\ q = toServer[2]
      BY <1>3, <1>6, <2>3 DEF Connections
    <3> HIDE DEF q
    <3>2. Pending(toServer[2]) = Pending(chunk') + Pending(toServer'[2])
      BY <1>7, <3>1
    <3> DEFINE k == Pending(chunk') + Pending(toServer'[2])
    <3>3. k <= Pending(toServer[2]) + Pending(chunk)
      BY <1>1, <2>1, <3>1, <3>2, AskedFacts
    <3> HIDE DEF k
    <3> QED BY <1>1, <1>8, <2>1, <3>1, <3>3, AskedFacts, UnderwayMoves DEF Underway, k
  <2> QED BY <1>3, <2>2, <2>3 DEF Connections
<1>11. FramesOK'
  BY <1>1, <1>3, <1>7, <1>9, <1>10, FramesKeep DEF FramesOK
<1> QED BY <1>8, <1>11 DEF IInv

LEMMA DispatchKeeps ==
  ASSUME IInv, Dispatch
  PROVE  IInv'
<1> DEFINE f == Head(chunk)
           s == ServerDispatch(srv, f.type)
<1>1. /\ UNCHANGED <<scenario, phase, conn, peerGone, feedDone, entered, torn, due, wireVars>>
      /\ chunk /= << >> /\ chunk' = Tail(chunk)
      /\ IF f.type = "U" /\ s.state = "LoggedIn"
           THEN OnOuch(f)
           ELSE srv' = s /\ UNCHANGED <<gw, orders, book, kill, past, out, mirror, told>>
      /\ MarketOK /\ FramesOK
  BY DEF Dispatch, IInv
<1>2. /\ scenario' = scenario /\ conn' = conn /\ toServer' = toServer
      /\ toServer \in [Connections -> Seq(Frames)] /\ chunk \in Seq(Frames) /\ conn \in 0..2
  BY <1>1 DEF wireVars, FramesOK
<1>3. /\ f \in Frames /\ chunk' \in Seq(Frames)
      /\ Pending(chunk) = Pending(chunk') + (IF Entering(f) THEN 1 ELSE 0)
      /\ Pending(chunk') \in Nat
  BY <1>1, <1>2, PendingTail, PendingType
<1>4. /\ s \in Sessions /\ Later(srv, s)
      /\ f.type = "U" /\ s.state = "LoggedIn" => srv.state = "LoggedIn"
  BY <1>1, DispatchFacts DEF MarketOK
<1> HIDE DEF f, s
<1>5. /\ MarketOK'
      /\ \/ IssuedIn(orders') = IssuedIn(orders)
         \/ /\ Entering(f) /\ IssuedIn(orders') = IssuedIn(orders) \union {NextRef}
  <2>1. CASE f.type = "U" /\ s.state = "LoggedIn"
    <3>1. OnOuch(f) /\ srv.state = "LoggedIn"
      BY <1>1, <1>4, <2>1
    <3>2. f \in Orders \union Cancels
      BY <1>3, <2>1, FrameFacts
    <3>3. ASSUME f \in Orders PROVE NextRef \in Refs
      <4>1. Entering(f)
        BY <1>3, <3>3, FrameFacts
      <4>2. NextRef = Cardinality(IssuedIn(orders)) + 1
        BY DEF NextRef, Issued, IssuedIn
      <4> DEFINE k == Cardinality(IssuedIn(orders))
      <4>3. k + 1 <= MaxRefs /\ k \in Nat
        <5> DEFINE m == S.entered
        <5>1. /\ k \in Nat /\ Pending(toServer[1]) \in Nat /\ Pending(toServer[2]) \in Nat
              /\ k + Pending(chunk) + Pending(toServer[1]) + Pending(toServer[2]) <= m
              /\ m \in Nat /\ m <= MaxRefs
          BY <1>1, AskedFacts
        <5> HIDE DEF k, m
        <5>2. Pending(chunk) = Pending(chunk') + 1 /\ MaxRefs \in Nat
          BY <1>3, <4>1, BoundFacts
        <5> QED BY <1>3, <5>1, <5>2
      <4> HIDE DEF k
      <4>4. k + 1 \in Refs
        BY <4>3, BoundFacts DEF Refs
      <4> QED BY <4>2, <4>4 DEF k
    <3>4. MarketOK' /\ OneMore /\ (f \in Cancels => IssuedIn(orders') = IssuedIn(orders))
      BY <1>1, <3>1, <3>2, <3>3, OuchKeeps
    <3>5. f \in Orders => Entering(f)
      BY <1>3, FrameFacts
    <3> QED BY <3>2, <3>4, <3>5 DEF OneMore
  <2>2. CASE ~(f.type = "U" /\ s.state = "LoggedIn")
    <3>1. srv' = s /\ UNCHANGED <<gw, orders, book, kill, past, out, mirror, told>>
      BY <1>1, <2>2
    <3>2. UNCHANGED <<gw, orders, book, past, mirror, told>> /\ srv' \in Sessions /\ Later(srv, srv')
      BY <1>4, <3>1
    <3> QED BY <1>1, <3>2, MarketSame
  <2> QED BY <2>1, <2>2
<1>6. Underway(orders', chunk', toServer') <= S.entered
  <2>1. Cardinality(IssuedIn(orders')) \in Nat
    <3>1. IssuedIn(orders') \in SUBSET Refs
      BY DEF IssuedIn
    <3> QED BY <3>1, BoundFacts, FS_Subset, FS_CardinalityType
  <2>2. CASE IssuedIn(orders') = IssuedIn(orders)
    <3>1. Cardinality(IssuedIn(orders')) = Cardinality(IssuedIn(orders))
      BY <2>2
    <3>2. Pending(chunk') <= Pending(chunk)
      BY <1>3
    <3> DEFINE i == Cardinality(IssuedIn(orders))
               c == Pending(chunk)
               a == Pending(toServer[1])
               b == Pending(toServer[2])
               c1 == Pending(chunk')
               m == S.entered
    <3>3. i \in Nat /\ c \in Nat /\ a \in Nat /\ b \in Nat /\ m \in Nat /\ i + c + a + b <= m
      BY <1>1, AskedFacts
    <3>4. Underway(orders', chunk', toServer') = i + c1 + a + b /\ c1 \in Nat /\ c1 <= c
      BY <1>2, <1>3, <3>1, <3>2 DEF Underway
    <3> HIDE DEF i, c, a, b, c1, m
    <3>5. i + c1 + a + b <= m
      BY <3>3, <3>4
    <3> QED BY <3>4, <3>5 DEF m
  <2>3. CASE Entering(f) /\ IssuedIn(orders') = IssuedIn(orders) \union {NextRef}
    <3>1. IsFiniteSet(IssuedIn(orders))
      <4>1. IssuedIn(orders) \in SUBSET Refs
        BY DEF IssuedIn
      <4> QED BY <4>1, BoundFacts, FS_Subset
    <3> DEFINE I == IssuedIn(orders)
               r == NextRef
    <3>2. IsFiniteSet(I) /\ IssuedIn(orders') = I \union {r}
      BY <2>3, <3>1
    <3>3. Cardinality(I \union {r}) = IF r \in I THEN Cardinality(I) ELSE Cardinality(I) + 1
      <4> HIDE DEF I, r
      <4> QED BY <3>2, FS_AddElement
    <3>4. Cardinality(IssuedIn(orders')) <= Cardinality(IssuedIn(orders)) + 1
      <4> DEFINE a == Cardinality(I \union {r})
                 b == Cardinality(I)
      <4>1. a = Cardinality(IssuedIn(orders')) /\ b = Cardinality(IssuedIn(orders)) /\ b \in Nat
        BY <1>1, <3>2, AskedFacts
      <4>2. a = b \/ a = b + 1
        BY <3>3
      <4> HIDE DEF a, b
      <4>3. a <= b + 1
        BY <4>1, <4>2
      <4> QED BY <4>1, <4>3
    <3>5. Pending(chunk) = Pending(chunk') + 1
      BY <1>3, <2>3
    <3> HIDE DEF I, r
    <3> DEFINE a == Cardinality(IssuedIn(orders'))
               b == Cardinality(IssuedIn(orders))
               k == Pending(toServer[1])
               l == Pending(toServer[2])
               u == Pending(chunk)
               v == Pending(chunk')
               m == S.entered
    <3>6. /\ a \in Nat /\ b \in Nat /\ k \in Nat /\ l \in Nat /\ u \in Nat /\ v \in Nat /\ m \in Nat
          /\ b + u + k + l <= m /\ a <= b + 1 /\ u = v + 1
      BY <1>1, <1>3, <2>1, <3>4, <3>5, AskedFacts
    <3>7. Underway(orders', chunk', toServer') = a + v + k + l
      BY <1>2 DEF Underway
    <3> HIDE DEF a, b, k, l, u, v, m
    <3>8. a + v + k + l <= m
      BY <3>6
    <3> QED BY <3>7, <3>8 DEF m
  <2> QED BY <1>5, <2>2, <2>3
<1>7. FramesOK'
  BY <1>1, <1>2, <1>3, <1>6, FramesKeep
<1> QED BY <1>5, <1>7 DEF IInv

LEMMA EndReadKeeps ==
  ASSUME IInv, EndRead
  PROVE  IInv'
<1> DEFINE h == Heard(srv, entered)
           s == IF h.state = "LoginReceived" THEN LoginAccepted(h) ELSE h
<1>1. /\ UNCHANGED <<kill, past, told, scenario, conn, peerGone, feedDone, chunk, entered, torn,
                     due, wireVars>>
      /\ srv' = s /\ PollWith(s) /\ MarketOK /\ FramesOK
  BY DEF EndRead, IInv
<1>2. s \in Sessions /\ Later(srv, s)
  BY <1>1, EndReadFacts DEF MarketOK
<1> HIDE DEF s
<1>3. /\ past' = past /\ told' = told /\ scenario' = scenario /\ conn' = conn
      /\ chunk' = chunk /\ toServer' = toServer /\ conn \in 0..2
  BY <1>1 DEF wireVars, FramesOK
<1>4. MarketOK' /\ IssuedIn(orders') = IssuedIn(orders)
  BY <1>1, <1>2, <1>3, PollKeeps
<1>5. FramesOK'
  BY <1>1, <1>3, <1>4, FramesSame
<1> QED BY <1>4, <1>5 DEF IInv

LEMMA ReplayKeeps ==
  ASSUME IInv, Replay
  PROVE  IInv'
<1>1. /\ UNCHANGED <<scenario, conn, peerGone, feedDone, chunk, entered, torn, due, wireVars>>
      /\ ReplayApplies /\ MarketOK /\ FramesOK
  BY DEF Replay, IInv
<1>2. \A o \in S.history : o.shares \in Nat \ {0}
  BY <1>1, ScenarioFacts DEF FramesOK
<1>3. MarketOK' /\ IssuedIn(orders') = IssuedIn(orders)
  <2>1. CASE \E ref \in History : \E n \in 1..past[ref] : FeedExecutes(ref, n)
    BY <1>1, <2>1, ExecutesKeeps
  <2>2. CASE \E ref \in History : \E o \in S.history : FeedAdds(ref, o.side, o.price, o.shares)
    <3>1. PICK ref \in History, o \in S.history : FeedAdds(ref, o.side, o.price, o.shares)
      BY <2>2
    <3> DEFINE side == o.side
               price == o.price
               shares == o.shares
    <3>2. FeedAdds(ref, side, price, shares) /\ shares \in Nat \ {0}
      BY <1>2, <3>1
    <3> HIDE DEF side, price, shares
    <3>3. MarketOK' /\ orders' = orders
      BY <1>1, <3>2, AddsKeeps
    <3> QED BY <3>3
  <2>3. CASE \E ref \in History : \E n \in 1..past[ref] : FeedReduces(ref, n)
    <3>1. PICK ref \in History : \E n \in 1..past[ref] : FeedReduces(ref, n)
      BY <2>3
    <3>2. MarketOK' /\ orders' = orders
      BY <1>1, <3>1, ReducesKeeps
    <3> QED BY <3>2
  <2>4. CASE \E ref \in History : FeedDeletes(ref)
    <3>1. MarketOK' /\ orders' = orders
      BY <1>1, <2>4, DeletesKeeps
    <3> QED BY <3>1
  <2>5. CASE \E old, new \in History : \E o \in S.history :
               FeedReplaces(old, new, o.price, o.shares)
    <3>1. PICK old \in History, new \in History, o \in S.history :
            FeedReplaces(old, new, o.price, o.shares)
      BY <2>5
    <3> DEFINE price == o.price
               shares == o.shares
    <3>2. FeedReplaces(old, new, price, shares) /\ shares \in Nat \ {0}
      BY <1>2, <3>1
    <3> HIDE DEF price, shares
    <3>3. MarketOK' /\ orders' = orders
      BY <1>1, <3>2, ReplacesKeeps
    <3> QED BY <3>3
  <2> QED BY <1>1, <2>1, <2>2, <2>3, <2>4, <2>5 DEF ReplayApplies
<1>4. /\ scenario' = scenario /\ conn' = conn /\ chunk' = chunk /\ toServer' = toServer
      /\ conn \in 0..2
  BY <1>1 DEF wireVars, FramesOK
<1>5. FramesOK'
  BY <1>1, <1>3, <1>4, FramesSame
<1> QED BY <1>3, <1>5 DEF IInv

LEMMA DrainKeeps ==
  ASSUME IInv, Drain
  PROVE  IInv'
<1>1. /\ UNCHANGED <<srv, gw, orders, book, kill, past, mirror, told, scenario, feedDone, chunk,
                     entered, torn, due, cli, toServer>>
      /\ conn' \in {0, conn} /\ MarketOK /\ FramesOK
  BY DEF Drain, IInv
<1>2. /\ UNCHANGED <<gw, orders, book, past, mirror, told>>
      /\ srv' \in Sessions /\ Later(srv, srv')
  BY <1>1 DEF MarketOK, Later
<1>3. MarketOK' /\ IssuedIn(orders') = IssuedIn(orders)
  BY <1>1, <1>2, MarketSame
<1>4. conn' \in 0..2
  BY <1>1 DEF FramesOK
<1>5. FramesOK'
  BY <1>1, <1>3, <1>4, FramesSame
<1> QED BY <1>3, <1>5 DEF IInv

\* A step that changes neither the market nor the frames on their way.
LEMMA RestKeeps ==
  ASSUME IInv, UNCHANGED gwVars, scenario' = scenario, conn' = conn, chunk' = chunk,
         toServer' = toServer
  PROVE  IInv'
<1>1. MarketOK' /\ IssuedIn(orders') = IssuedIn(orders)
  BY AllSame DEF IInv
<1>2. FramesOK'
  <2>1. conn \in 0..2 /\ FramesOK /\ MarketOK
    BY DEF FramesOK, IInv
  <2> QED BY <1>1, <2>1, FramesSame
<1> QED BY <1>1, <1>2 DEF IInv

-----------------------------------------------------------------------------
(* The clients, and time.                                                  *)

LEMMA ConnectKeeps ==
  ASSUME IInv, Connect
  PROVE  IInv'
<1>1. UNCHANGED <<gwVars, loopVars, due, cli, toClient>> /\ MarketOK /\ FramesOK
  BY DEF Connect, IInv
<1>2. PICK c \in 1..S.connections : Send(c, <<Frame("L")>>)
  BY DEF Connect
<1>3. c \in Connections
  BY <1>1, ScenarioFacts DEF FramesOK, Connections
<1>4. scenario' = scenario /\ conn' = conn /\ chunk' = chunk
  BY <1>1 DEF loopVars
<1> DEFINE f == Frame("L")
<1>5. f \in Plain /\ f \in Frames
  BY PlainFrame DEF f
<1> HIDE DEF f
<1>6. <<f>> \in Seq(Frames) /\ Pending(<<f>>) = 0
  BY <1>5, PendingOne, FrameFacts
<1>7. MarketOK' /\ orders' = orders
  BY <1>1, AllSame
<1>8. FramesOK'
  <2> DEFINE q == <<f>>
  <2>1. q \in Seq(Frames) /\ Pending(q) = 0 /\ Send(c, q)
    BY <1>2, <1>6 DEF f
  <2> HIDE DEF q
  <2> QED BY <1>1, <1>3, <1>4, <1>7, <2>1, SendFacts
<1> QED BY <1>7, <1>8 DEF IInv

LEMMA ClientTicksKeeps ==
  ASSUME IInv, ClientTicks
  PROVE  IInv'
<1>1. UNCHANGED <<gwVars, loopVars, link, toClient>> /\ MarketOK /\ FramesOK
  BY DEF ClientTicks, IInv
<1>2. PICK c \in due \ {Server} :
        LET t == ClientTick(cli[c])
        IN  Send(c, [i \in 1..Len(t.frames) |-> Frame(t.frames[i])])
  BY DEF ClientTicks
<1> DEFINE t == ClientTick(cli[c])
           q == [i \in 1..Len(t.frames) |-> Frame(t.frames[i])]
           f == Frame("R")
<1>3. f \in Plain /\ f \in Frames
  BY PlainFrame DEF f
<1>4. q = <<f>> \/ q = << >>
  <2>1. t.frames = <<"R">> \/ t.frames = << >>
    BY DEF ClientTick
  <2> HIDE DEF t
  <2>2. CASE t.frames = <<"R">>
    BY <2>2
  <2>3. CASE t.frames = << >>
    BY <2>3
  <2> QED BY <2>1, <2>2, <2>3
<1>5. Send(c, q)
  BY <1>2
<1> HIDE DEF q, f
<1>6. q \in Seq(Frames) /\ Pending(q) = 0
  <2>1. <<f>> \in Seq(Frames) /\ Pending(<<f>>) = 0
    BY <1>3, PendingOne, FrameFacts
  <2> QED BY <1>4, <2>1, PendingNone
<1>7. MarketOK' /\ orders' = orders
  BY <1>1, AllSame
<1>8. scenario' = scenario /\ conn' = conn /\ chunk' = chunk
  BY <1>1 DEF loopVars
<1>9. CASE c \in Connections
  <2>1. FramesOK'
    BY <1>1, <1>5, <1>6, <1>7, <1>8, <1>9, SendFacts
  <2> QED BY <1>7, <2>1 DEF IInv
<1>10. CASE c \notin Connections
  <2>1. toServer' = toServer
    BY <1>1, <1>5, <1>10 DEF Send, FramesOK
  <2> QED BY <1>1, <1>8, <2>1, RestKeeps
<1> QED BY <1>9, <1>10

\* What a client sends for an order.
LEMMA OrderFrames ==
  ASSUME scenario \in DOMAIN Scenarios, SendOrder
  PROVE  \E c \in Connections, f \in Frames :
           /\ link[c] = "open" /\ cli[c].state = "LoggedIn" /\ cli' = [cli EXCEPT ![c] = Sent(@)]
           /\ Send(c, <<f>>) /\ (Entering(f) => Asked < S.entered)
<1>1. PICK c \in Connections :
       /\ link[c] = "open" /\ cli[c].state = "LoggedIn" /\ cli' = [cli EXCEPT ![c] = Sent(@)]
       /\ \/ \E t \in 1..S.tokens, o \in S.orders :
               /\ Asked < S.entered
               /\ Send(c, <<[type |-> "U", ouch |-> "enter", token |-> t, order |-> o]>>)
          \/ \E t, u \in 1..S.tokens, o \in S.replacements :
               /\ Asked < S.entered /\ gw.token[t] /= 0
               /\ Send(c, <<[type |-> "U", ouch |-> "replace", token |-> t, fresh |-> u,
                             order |-> o]>>)
          \/ \E t \in 1..S.tokens :
               /\ gw.token[t] /= 0
               /\ Send(c, <<[type |-> "U", ouch |-> "cancel", token |-> t]>>)
  BY DEF SendOrder
<1>2. /\ S.orders \subseteq OrderSet /\ S.replacements \subseteq OrderSet
      /\ \A t \in 1..S.tokens : t \in Tokens
  BY ScenarioFacts
<1>3. \E f \in Frames : Send(c, <<f>>) /\ (Entering(f) => Asked < S.entered)
  <2>1. CASE \E t \in 1..S.tokens, o \in S.orders :
               /\ Asked < S.entered
               /\ Send(c, <<[type |-> "U", ouch |-> "enter", token |-> t, order |-> o]>>)
    <3>1. PICK t \in 1..S.tokens, o \in S.orders :
               /\ Asked < S.entered
               /\ Send(c, <<[type |-> "U", ouch |-> "enter", token |-> t, order |-> o]>>)
      BY <2>1
    <3>2. [type |-> "U", ouch |-> "enter", token |-> t, order |-> o] \in Frames
      BY <1>2 DEF Frames, Orders, Enters
    <3> QED BY <3>1, <3>2
  <2>2. CASE \E t, u \in 1..S.tokens, o \in S.replacements :
               /\ Asked < S.entered /\ gw.token[t] /= 0
               /\ Send(c, <<[type |-> "U", ouch |-> "replace", token |-> t, fresh |-> u,
                             order |-> o]>>)
    <3>1. PICK t \in 1..S.tokens, u \in 1..S.tokens, o \in S.replacements :
               /\ Asked < S.entered
               /\ Send(c, <<[type |-> "U", ouch |-> "replace", token |-> t, fresh |-> u,
                             order |-> o]>>)
      BY <2>2
    <3>2. [type |-> "U", ouch |-> "replace", token |-> t, fresh |-> u, order |-> o] \in Frames
      BY <1>2 DEF Frames, Orders, Replaces
    <3> QED BY <3>1, <3>2
  <2>3. CASE \E t \in 1..S.tokens :
               /\ gw.token[t] /= 0
               /\ Send(c, <<[type |-> "U", ouch |-> "cancel", token |-> t]>>)
    <3>1. PICK t \in 1..S.tokens : Send(c, <<[type |-> "U", ouch |-> "cancel", token |-> t]>>)
      BY <2>3
    <3> DEFINE f == [type |-> "U", ouch |-> "cancel", token |-> t]
    <3>2. f \in Frames /\ f.ouch = "cancel"
      BY <1>2 DEF Frames, Cancels
    <3>3. ~Entering(f)
      BY <3>2 DEF Entering
    <3>4. Send(c, <<f>>)
      BY <3>1
    <3> HIDE DEF f
    <3> QED BY <3>2, <3>3, <3>4
  <2> QED BY <1>1, <2>1, <2>2, <2>3
<1> QED BY <1>1, <1>3

LEMMA SendOrderKeeps ==
  ASSUME IInv, SendOrder
  PROVE  IInv'
<1>1. UNCHANGED <<gwVars, loopVars, due, link, toClient>> /\ MarketOK /\ FramesOK
  BY DEF SendOrder, IInv
<1>2. PICK c \in Connections, f \in Frames : Send(c, <<f>>) /\ (Entering(f) => Asked < S.entered)
  BY <1>1, OrderFrames DEF FramesOK
<1>3. MarketOK' /\ orders' = orders
  BY <1>1, AllSame
<1>4. scenario' = scenario /\ conn' = conn /\ chunk' = chunk
  BY <1>1 DEF loopVars
<1>5. FramesOK'
  <2> DEFINE q == <<f>>
  <2>1. Send(c, q) /\ q \in Seq(Frames) /\ Pending(q) = IF Entering(f) THEN 1 ELSE 0
    BY <1>2, PendingOne
  <2>2. Pending(q) > 0 => Asked < S.entered /\ Pending(q) = 1
    BY <1>2, <2>1
  <2> HIDE DEF q
  <2> QED BY <1>1, <1>3, <1>4, <2>1, <2>2, SendFacts
<1> QED BY <1>3, <1>5 DEF IInv

LEMMA SendLastKeeps ==
  ASSUME IInv, SendLast
  PROVE  IInv'
<1>1. UNCHANGED <<gwVars, loopVars, due, link, toClient>> /\ MarketOK /\ FramesOK
  BY DEF SendLast, IInv
<1>2. PICK c \in Connections, type \in S.last : Send(c, <<Frame(type)>>)
  BY DEF SendLast
<1> DEFINE f == Frame(type)
           q == <<f>>
<1>3. f \in Plain /\ f \in Frames
  BY <1>1, ScenarioFacts DEF FramesOK, Frames
<1>4. Send(c, q)
  BY <1>2
<1> HIDE DEF f
<1>5. q \in Seq(Frames) /\ Pending(q) = 0
  BY <1>3, PendingOne, FrameFacts
<1> HIDE DEF q
<1>6. MarketOK' /\ orders' = orders
  BY <1>1, AllSame
<1>7. scenario' = scenario /\ conn' = conn /\ chunk' = chunk
  BY <1>1 DEF loopVars
<1>8. FramesOK'
  BY <1>1, <1>4, <1>5, <1>6, <1>7, SendFacts
<1> QED BY <1>6, <1>8 DEF IInv

LEMMA TripKeeps ==
  ASSUME IInv, TripKill
  PROVE  IInv'
<1>1. /\ UNCHANGED <<srv, gw, orders, book, past, out, mirror, told>>
      /\ UNCHANGED <<loopVars, due, wireVars>> /\ MarketOK /\ FramesOK
  BY DEF TripKill, Trip, IInv
<1>2. /\ UNCHANGED <<gw, orders, book, past, mirror, told>>
      /\ srv' \in Sessions /\ Later(srv, srv')
  BY <1>1 DEF MarketOK, Later
<1>3. MarketOK' /\ IssuedIn(orders') = IssuedIn(orders)
  BY <1>1, <1>2, MarketSame
<1>4. /\ scenario' = scenario /\ conn' = conn /\ chunk' = chunk /\ toServer' = toServer
      /\ conn \in 0..2
  BY <1>1 DEF loopVars, wireVars, FramesOK
<1>5. FramesOK'
  BY <1>1, <1>3, <1>4, FramesSame
<1> QED BY <1>3, <1>5 DEF IInv

LEMMA PassKeeps ==
  ASSUME IInv, Pass
  PROVE  IInv'
<1>1. /\ UNCHANGED <<gw, orders, book, kill, past, out, mirror, told, loopVars, link, toServer,
                     toClient>>
      /\ srv' = IF srv = NoSession THEN srv ELSE Older(srv)
      /\ MarketOK /\ FramesOK
  BY DEF Pass, IInv
<1>2. srv' \in Sessions /\ Later(srv, srv')
  <2>1. srv \in Sessions
    BY <1>1 DEF MarketOK
  <2>2. Older(srv) \in Sessions /\ Older(srv).state = srv.state
    BY <2>1, OlderFacts
  <2>3. srv' \in Sessions /\ srv'.state = srv.state
    BY <1>1, <2>1, <2>2
  <2> QED BY <2>3 DEF Later
<1>3. MarketOK' /\ IssuedIn(orders') = IssuedIn(orders)
  BY <1>1, <1>2, MarketSame
<1>4. /\ scenario' = scenario /\ conn' = conn /\ chunk' = chunk /\ toServer' = toServer
      /\ conn \in 0..2
  BY <1>1 DEF loopVars, FramesOK
<1>5. FramesOK'
  BY <1>1, <1>3, <1>4, FramesSame
<1> QED BY <1>3, <1>5 DEF IInv

-----------------------------------------------------------------------------
(* The invariant, and what follows from it.                                *)

LEMMA InitIsGood == Init => IInv
<1> SUFFICES ASSUME Init PROVE IInv
  OBVIOUS
<1>1. /\ gw = NewGateway /\ orders = [r \in Refs |-> NoOrder] /\ book = {}
      /\ past = [r \in History |-> -1] /\ mirror = {} /\ told = [t \in Tokens |-> Silence]
      /\ srv = NoSession /\ scenario \in DOMAIN Scenarios /\ conn = 0 /\ chunk = << >>
      /\ toServer = [c \in Connections |-> << >>]
  BY DEF Init, GatewayInit
<1>2. srv \in Sessions /\ srv.state = "None"
  BY <1>1 DEF NoSession, Sessions, Early
<1>3. past \in [History -> Int]
  BY <1>1
<1>4. NoOrder \in Records /\ NoOrder.resting = 0 /\ NoOrder.state = "None"
  BY DEF NoOrder, Records, OrderStates, Sides
<1>5. \A r \in Refs : orders[r] = NoOrder
  BY <1>1
<1>6. RecordsOK(orders)
  BY <1>1, <1>4, <1>5 DEF RecordsOK, Working
<1>7. IssuedIn(orders) = {} /\ InOrder(orders) /\ Cardinality(IssuedIn(orders)) = 0
  <2>1. IssuedIn(orders) = {}
    BY <1>4, <1>5 DEF IssuedIn
  <2>2. Cardinality(IssuedIn(orders)) = 0
    BY <2>1, FS_EmptySet
  <2> QED BY <2>1, <2>2 DEF InOrder
<1>8. BookOK(book, orders, past)
  BY <1>1, <1>4, <1>5, FS_EmptySet DEF BookOK
<1>9. /\ GatewayOK(gw, orders) /\ \A t \in Tokens : gw.token[t] = 0
      /\ ToldAll(told, gw, orders)
  BY <1>1, NewGatewayFacts
<1>10. MarketOK
  BY <1>1, <1>2, <1>3, <1>6, <1>7, <1>8, <1>9 DEF MarketOK, Core, ToldOK
<1>11. chunk \in Seq(Frames) /\ Pending(chunk) = 0
  BY <1>1, PendingNone
<1>12. /\ toServer \in [Connections -> Seq(Frames)]
       /\ Pending(toServer[1]) = 0 /\ Pending(toServer[2]) = 0
  <2>1. toServer[1] = << >> /\ toServer[2] = << >>
    BY <1>1 DEF Connections
  <2> QED BY <1>1, <2>1, PendingNone
<1>13. Asked <= S.entered
  <2>1. Issued = IssuedIn(orders)
    BY DEF Issued, IssuedIn
  <2>2. Asked = 0
    BY <1>7, <1>11, <1>12, <2>1 DEF Asked
  <2> QED BY <1>1, <2>2, ScenarioFacts
<1>14. FramesOK
  BY <1>1, <1>11, <1>12, <1>13 DEF FramesOK
<1> QED BY <1>10, <1>14 DEF IInv

LEMMA NextIsGood == IInv /\ [Next]_vars => IInv'
<1> SUFFICES ASSUME IInv, [Next]_vars PROVE IInv'
  OBVIOUS
<1>1. ASSUME UNCHANGED gwVars, scenario' = scenario, conn' = conn, chunk' = chunk,
             UNCHANGED wireVars
      PROVE  IInv'
  <2>1. toServer' = toServer
    BY <1>1 DEF wireVars
  <2> QED BY <1>1, <2>1, RestKeeps
<1>2. CASE Loop
  <2>1. CASE Tick
    BY <2>1, TickKeeps
  <2>2. CASE Accept
    BY <2>2, AcceptKeeps
  <2>3. CASE NothingToAccept
    BY <1>1, <2>3 DEF NothingToAccept
  <2>4. CASE Read
    BY <2>4, ReadKeeps
  <2>5. CASE ReadEof
    BY <1>1, <2>5 DEF ReadEof
  <2>6. CASE ReadNothing
    BY <1>1, <2>6 DEF ReadNothing
  <2>7. CASE Dispatch
    BY <2>7, DispatchKeeps
  <2>8. CASE EndRead
    BY <2>8, EndReadKeeps
  <2>9. CASE Replay
    BY <2>9, ReplayKeeps
  <2>10. CASE NothingDue
    BY <1>1, <2>10 DEF NothingDue
  <2>11. CASE EndFeed
    BY <1>1, <2>11 DEF EndFeed
  <2>12. CASE Drain
    BY <2>12, DrainKeeps
  <2> QED BY <1>2, <2>1, <2>2, <2>3, <2>4, <2>5, <2>6, <2>7, <2>8, <2>9, <2>10, <2>11, <2>12
          DEF Loop
<1>3. CASE Clients
  <2>1. CASE Connect
    BY <2>1, ConnectKeeps
  <2>2. CASE ClientTicks
    BY <2>2, ClientTicksKeeps
  <2>3. CASE ClientReads
    BY <2>3, RestKeeps DEF ClientReads, loopVars
  <2>4. CASE SendOrder
    BY <2>4, SendOrderKeeps
  <2>5. CASE SendLast
    BY <2>5, SendLastKeeps
  <2>6. CASE Leave
    BY <2>6, RestKeeps DEF Leave, loopVars
  <2>7. CASE TripKill
    BY <2>7, TripKeeps
  <2> QED BY <1>3, <2>1, <2>2, <2>3, <2>4, <2>5, <2>6, <2>7 DEF Clients
<1>4. CASE Pass
  BY <1>4, PassKeeps
<1>5. CASE UNCHANGED vars
  BY <1>1, <1>5 DEF vars, loopVars
<1> QED BY <1>2, <1>3, <1>4, <1>5 DEF Next

LEMMA RecordsAgree == IInv => BooksAgree
<1> SUFFICES ASSUME IInv PROVE BooksAgree
  OBVIOUS
<1>1. /\ mirror = book /\ BookOK(book, orders, past) /\ GatewayOK(gw, orders)
      /\ RecordsOK(orders)
  BY DEF IInv, MarketOK, Core
<1>2. gw.live = {r \in Ours(gw) : ~Done(orders[r].state)}
  BY <1>1 DEF GatewayOK
<1>3. ASSUME NEW r \in Refs
      PROVE  orders[r].resting = Shares({e \in book : e.ref = r})
  <2> DEFINE A == {e \in book : e.ref = r}
  <2>1. orders[r].resting \in Nat
    BY <1>1 DEF RecordsOK, Records
  <2>2. \A e \in A : e.shares = orders[r].resting /\ e.shares \in Nat \ {0}
    BY <1>1 DEF BookOK, EntryOK
  <2>3. \A e, f \in A : e = f
    BY <1>1 DEF BookOK
  <2>4. orders[r].resting > 0 => \E e \in A : TRUE
    BY <1>1 DEF BookOK
  <2>5. IsFiniteSet(A)
    <3>1. A \in SUBSET book /\ IsFiniteSet(book)
      BY <1>1 DEF BookOK
    <3> QED BY <3>1, FS_Subset
  <2> HIDE DEF A
  <2>6. CASE A = {}
    BY <2>1, <2>4, <2>5, <2>6, SharesFacts DEF A
  <2>7. CASE \E e \in A : TRUE
    <3>1. PICK e \in A : TRUE
      BY <2>7
    <3>2. A = {e}
      BY <2>3, <3>1
    <3>3. Shares(A) = e.shares
      BY <2>2, <2>5, <3>2, SharesFacts
    <3> QED BY <2>2, <3>3 DEF A
  <2> QED BY <2>6, <2>7
<1>4. LiveIsLive
  BY <1>2, <1>3 DEF LiveIsLive
<1> QED BY <1>1, <1>4 DEF BooksAgree, MirrorIsBook

LEMMA Truthful == IInv => ToldTheTruth
<1> SUFFICES ASSUME IInv PROVE ToldTheTruth
  OBVIOUS
<1> DEFINE mine == {t \in Tokens : gw.token[t] /= 0}
           f == [t \in mine |-> Signed(orders[gw.token[t]].side, orders[gw.token[t]].filled)]
           g == [t \in Tokens |-> Traded(gw.token, orders, t)]
<1>1. /\ GatewayOK(gw, orders) /\ RecordsOK(orders) /\ ToldOK(srv.state, told, gw, orders)
  BY DEF IInv, MarketOK, Core
<1>2. \A t \in mine : f[t] \in Int
  <2> SUFFICES ASSUME NEW t \in mine PROVE f[t] \in Int
    OBVIOUS
  <2>1. gw.token[t] \in Refs
    BY <1>1, TokenFacts DEF GatewayOK
  <2>2. orders[gw.token[t]].filled \in Int
    BY <1>1, <2>1 DEF RecordsOK, Records
  <2> DEFINE x == orders[gw.token[t]].filled
             side == orders[gw.token[t]].side
  <2>3. x \in Int /\ f[t] = Signed(side, x)
    BY <2>2
  <2> HIDE DEF x, side, f
  <2> QED BY <2>3, SignedAdds
<1>3. \A t \in Tokens : g[t] = IF t \in mine THEN f[t] ELSE 0
  BY DEF Traded
<1>4. mine \in SUBSET Tokens /\ DOMAIN f = mine
  OBVIOUS
<1>5. gw.position = SumFunctionOnSet(g, Tokens)
  BY <1>1 DEF GatewayOK, Held
<1>6. gw.position = SumFunction(f)
  <2> HIDE DEF f, g, mine
  <2>1. SumFunctionOnSet(g, Tokens) = SumFunctionOnSet(f, mine)
    BY <1>2, <1>3, <1>4, BoundFacts, SumFilter
  <2>2. SumFunction(f) = SumFunctionOnSet(f, DOMAIN f)
    BY DEF SumFunction
  <2> QED BY <1>4, <1>5, <2>1, <2>2
<1>7. ASSUME srv.state = "LoggedIn", NEW t \in mine
      PROVE  /\ told[t].executed = orders[gw.token[t]].filled
             /\ told[t].cancelled = orders[gw.token[t]].cancelled
  BY <1>1, <1>7 DEF ToldOK, ToldAll
<1> QED BY <1>6, <1>7 DEF ToldTheTruth

\* The gateway's list of live orders is the orders of its client that are not
\* done, each rests in the book with the shares its record says, and the book a
\* subscriber rebuilds from the published feed is the exchange's own, whatever
\* the clients, the feed, the clock and the sockets do: engine/gateway.hpp and
\* replay/split.hpp keep the three by hand.
THEOREM ExchangeBooksAgree == Spec => []BooksAgree
<1>1. Init => IInv
  BY InitIsGood
<1>2. IInv /\ [Next]_vars => IInv'
  BY NextIsGood
<1>3. IInv => BooksAgree
  BY RecordsAgree
<1> QED BY <1>1, <1>2, <1>3, PTL DEF Spec

\* The position the limits are checked against is the sum of what the client's
\* orders traded, signed; and a client that is logged in was told, token by
\* token, exactly the shares that traded and the shares that died.
THEOREM ExchangeToldTheTruth == Spec => []ToldTheTruth
<1>1. Init => IInv
  BY InitIsGood
<1>2. IInv /\ [Next]_vars => IInv'
  BY NextIsGood
<1>3. IInv => ToldTheTruth
  BY Truthful
<1> QED BY <1>1, <1>2, <1>3, PTL DEF Spec

-----------------------------------------------------------------------------
(* What a client has counted of the frames it read.                        *)

\* g is the function FoldLeft(ClientDispatch, s, q) is computed by.
Runs(s, q, g, D) ==
  g = [T \in SUBSET D |->
         IF T = {} THEN s ELSE ClientDispatch(g[T \ {Max(T)}], q[Max(T)])]

LEMMA ReadUnfolded ==
  ASSUME NEW s, NEW q
  PROVE  FoldLeft(ClientDispatch, s, q) = (CHOOSE g : Runs(s, q, g, DOMAIN q))[DOMAIN q]
BY DEF FoldLeft, MapThenFoldSet, Runs

\* Such a function is determined on every set it is computed for, ...
LEMMA RunsSame ==
  ASSUME NEW s, NEW q, NEW D, NEW E, Numbers(D), NEW g, NEW h,
         Runs(s, q, g, D), Runs(s, q, h, E),
         NEW V, V \subseteq D, V \subseteq E
  PROVE  g[V] = h[V]
<1> DEFINE B == {U \in SUBSET D : U \subseteq E /\ g[U] /= h[U]}
<1>1. SUFFICES ASSUME B /= {} PROVE FALSE
  OBVIOUS
<1>2. PICK U \in B : \A W \in B : W \subseteq U => W = U
  <2>1. B \subseteq SUBSET D
    OBVIOUS
  <2> HIDE DEF B
  <2> QED BY <1>1, <2>1, SmallestPart
<1>3. CASE U = {}
  BY <1>2, <1>3 DEF Runs
<1>4. CASE U /= {}
  <2>1. Max(U) \in U
    BY <1>2, <1>4, PartFacts
  <2> DEFINE W == U \ {Max(U)}
  <2>2. W \subseteq U /\ W /= U
    BY <2>1
  <2>3. g[W] = h[W]
    BY <1>2, <2>2
  <2>4. g[U] = ClientDispatch(g[W], q[Max(U)]) /\ h[U] = ClientDispatch(h[W], q[Max(U)])
    BY <1>2, <1>4 DEF Runs
  <2> QED BY <1>2, <2>3, <2>4
<1> QED BY <1>3, <1>4

\* ... and there is one for every finite set of positions.
LEMMA RunsExists ==
  ASSUME NEW s, NEW q, NEW D, Numbers(D)
  PROVE  \E g : Runs(s, q, g, D)
<1> DEFINE B == {U \in SUBSET D : ~\E g : Runs(s, q, g, U)}
<1>1. SUFFICES ASSUME B /= {} PROVE FALSE
  OBVIOUS
<1>2. PICK T \in B : \A W \in B : W \subseteq T => W = T
  <2>1. B \subseteq SUBSET D
    OBVIOUS
  <2> HIDE DEF B
  <2> QED BY <1>1, <2>1, SmallestPart
<1> DEFINE h(u) == CHOOSE g : Runs(s, q, g, u)
           val(u) == h(u)[u]
           less(u) == u \ {Max(u)}
           g == [u \in SUBSET T |-> IF u = {} THEN s ELSE ClientDispatch(val(less(u)), q[Max(u)])]
<1>3. ASSUME NEW u \in SUBSET T, u /= T PROVE Runs(s, q, h(u), u) /\ Numbers(u)
  <2>1. u \in SUBSET D /\ u \notin B
    BY <1>2, <1>3
  <2> QED BY <2>1, PartFacts
<1>4. ASSUME NEW u \in SUBSET T, u /= {} PROVE less(u) \in SUBSET T /\ less(u) /= T /\ less(u) \subseteq u
  <2>1. Max(u) \in u
    BY <1>2, <1>4, PartFacts
  <2> QED BY <2>1
<1>5. ASSUME NEW u \in SUBSET T, u /= T PROVE g[u] = val(u)
  <2>1. Runs(s, q, h(u), u) /\ Numbers(u)
    BY <1>3, <1>5
  <2>2. CASE u = {}
    <3>1. val(u) = s
      <4> HIDE DEF h
      <4> QED BY <2>1, <2>2 DEF Runs
    <3> QED BY <2>2, <3>1
  <2>3. CASE u /= {}
    <3> DEFINE r == less(u)
    <3>1. r \in SUBSET T /\ r /= T /\ r \subseteq u
      BY <1>4, <2>3
    <3>2. val(u) = ClientDispatch(h(u)[r], q[Max(u)])
      <4> HIDE DEF h
      <4> QED BY <2>1, <2>3 DEF Runs
    <3>3. h(u)[r] = h(r)[r]
      <4>1. Runs(s, q, h(r), r)
        BY <1>3, <3>1
      <4> DEFINE a == h(u)
                 b == h(r)
      <4>2. r \subseteq r /\ r \subseteq u /\ Runs(s, q, a, u) /\ Runs(s, q, b, r)
        BY <2>1, <3>1, <4>1
      <4> HIDE DEF a, b, h, r
      <4>3. a[r] = b[r]
        BY <2>1, <4>2, RunsSame
      <4> QED BY <4>3 DEF a, b
    <3> QED BY <2>3, <3>2, <3>3
  <2> QED BY <2>2, <2>3
<1>6. \A u \in SUBSET T : u /= {} => g[less(u)] = val(less(u))
  <2> HIDE DEF g, val, h, less
  <2> QED BY <1>4, <1>5
<1>7. Runs(s, q, g, T)
  <2> HIDE DEF val, h
  <2> QED BY <1>6 DEF Runs
<1> QED BY <1>2, <1>7

\* A read of n frames, as the sessions after each of them.
Spans(q, n) == DOMAIN q = 1..n
IsRun(run, s, q, n) ==
  /\ run[n] = FoldLeft(ClientDispatch, s, q) /\ run[0] = s
  /\ \A k \in 1..n : run[k] = ClientDispatch(run[k - 1], q[k])

LEMMA ReadIsRun ==
  ASSUME NEW s, NEW q, NEW n \in Nat, Spans(q, n)
  PROVE  \E run : IsRun(run, s, q, n)
<1> DEFINE D == 1..n
<1>1. Numbers(D)
  BY FS_Interval DEF Numbers
<1> DEFINE g == CHOOSE h : Runs(s, q, h, D)
           run == [k \in 0..n |-> g[1..k]]
<1>2. Runs(s, q, g, D)
  <2> HIDE DEF D
  <2> QED BY <1>1, RunsExists
<1>3. run[n] = FoldLeft(ClientDispatch, s, q)
  BY ReadUnfolded DEF Spans
<1> HIDE DEF g
<1>4. run[0] = s
  <2>1. 1..0 = {} /\ {} \in SUBSET D
    OBVIOUS
  <2> QED BY <1>2, <2>1 DEF Runs
<1>5. ASSUME NEW k \in 1..n PROVE run[k] = ClientDispatch(run[k - 1], q[k])
  <2> DEFINE T == 1..k
  <2>1. T \in SUBSET D /\ k \in T /\ \A y \in T : k >= y
    OBVIOUS
  <2>2. Max(T) = k
    <3>1. IsFiniteSet(T) /\ T \in SUBSET Nat /\ T /= {}
      <4>1. IsFiniteSet(T)
        BY FS_Interval
      <4>2. T \subseteq Nat
        OBVIOUS
      <4>3. T /= {}
        BY <2>1
      <4> QED BY <4>1, <4>2, <4>3
    <3> HIDE DEF T
    <3>2. Max(T) \in T /\ \A y \in T : Max(T) >= y
      BY <3>1, MaxIn
    <3>3. Max(T) >= k /\ k >= Max(T) /\ Max(T) \in Nat
      BY <2>1, <3>1, <3>2
    <3> QED BY <3>3
  <2>3. T \ {k} = 1..(k - 1)
    OBVIOUS
  <2>4. g[T] = ClientDispatch(g[T \ {k}], q[k])
    <3> HIDE DEF T, D
    <3> QED BY <1>2, <2>1, <2>2 DEF Runs
  <2>5. run[k] = g[T] /\ run[k - 1] = g[1..(k - 1)]
    OBVIOUS
  <2>6. g[T \ {k}] = g[1..(k - 1)]
    BY <2>3
  <2> HIDE DEF run, T
  <2> QED BY <2>4, <2>5, <2>6
<1>6. IsRun(run, s, q, n)
  <2> HIDE DEF run
  <2> QED BY <1>3, <1>4, <1>5 DEF IsRun
<1> QED BY <1>6

-----------------------------------------------------------------------------
(* What is numbered.                                                       *)

ToClients == {"S", "A", "H"}
Numbered(q) == Cardinality({i \in DOMAIN q : q[i] = "S"})

LEMMA NumberedType ==
  ASSUME NEW q \in Seq(ToClients)
  PROVE  Numbered(q) \in Nat
<1> DEFINE A == {i \in DOMAIN q : q[i] = "S"}
<1>1. DOMAIN q = 1..Len(q) /\ Len(q) \in Nat
  BY LenProperties
<1>2. IsFiniteSet(A)
  <2>1. IsFiniteSet(1..Len(q)) /\ A \in SUBSET (1..Len(q))
    BY <1>1, FS_Interval
  <2> QED BY <2>1, FS_Subset
<1> QED BY <1>2, FS_CardinalityType DEF Numbered

LEMMA NumberedConcat ==
  ASSUME NEW p \in Seq(ToClients), NEW q \in Seq(ToClients)
  PROVE  p \o q \in Seq(ToClients) /\ Numbered(p \o q) = Numbered(p) + Numbered(q)
<1> DEFINE m == Len(p)
           n == Len(q)
           r == p \o q
           A == {i \in 1..m : p[i] = "S"}
           B == {i \in 1..n : q[i] = "S"}
           U == {i \in 1..(m + n) : r[i] = "S"}
<1>1. m \in Nat /\ n \in Nat /\ DOMAIN p = 1..m /\ DOMAIN q = 1..n
  BY LenProperties
<1>2. /\ r \in Seq(ToClients) /\ Len(r) = m + n
      /\ \A i \in 1..(m + n) : r[i] = IF i <= m THEN p[i] ELSE q[i - m]
  BY ConcatProperties
<1>3. DOMAIN r = 1..(m + n)
  BY <1>2, LenProperties
<1> HIDE DEF m, n, r
<1>4. \A i \in 1..m : i \in 1..(m + n) /\ r[i] = p[i]
  BY <1>1, <1>2
<1>5. \A i \in 1..n : m + i \in 1..(m + n) /\ r[m + i] = q[i]
  BY <1>1, <1>2
<1>6. \A i \in 1..(m + n) : i \in 1..m \/ \E j \in 1..n : i = m + j
  <2> SUFFICES ASSUME NEW i \in 1..(m + n), i \notin 1..m PROVE \E j \in 1..n : i = m + j
    OBVIOUS
  <2>1. i - m \in 1..n /\ i = m + (i - m)
    BY <1>1
  <2> QED BY <2>1
<1>7. U = A \union ShiftedBy(m, B)
  BY <1>4, <1>5, <1>6 DEF ShiftedBy
<1>8. Cardinality(U) = Cardinality(A) + Cardinality(B)
  <2>1. Placed(U, A, m, B, n)
    <3>1. A \subseteq 1..m /\ B \subseteq 1..n
      OBVIOUS
    <3> HIDE DEF A, B, U
    <3> QED BY <1>7, <3>1 DEF Placed
  <2> HIDE DEF A, B, U
  <2> QED BY <1>1, <2>1, CountsAdd
<1> QED BY <1>1, <1>2, <1>3, <1>8 DEF Numbered, r

LEMMA NumberedSplit ==
  ASSUME NEW q \in Seq(ToClients), NEW n \in 0..Len(q)
  PROVE  LET p == SubSeq(q, 1, n)
             r == SubSeq(q, n + 1, Len(q))
         IN  p \in Seq(ToClients) /\ r \in Seq(ToClients) /\ Numbered(q) = Numbered(p) + Numbered(r)
<1> DEFINE p == SubSeq(q, 1, n)
           r == SubSeq(q, n + 1, Len(q))
<1>1. Len(q) \in Nat /\ \A i \in 1..Len(q) : q[i] \in ToClients
  BY LenProperties, ElementOfSeq
<1>2. p \in Seq(ToClients) /\ r \in Seq(ToClients)
  BY <1>1, SubSeqProperties
<1>3. p \o r = q
  <2>2. SubSeq(q, 1, n) \o SubSeq(q, n + 1, Len(q)) = SubSeq(q, 1, Len(q))
    <3> DEFINE l == Len(q)
               k == 1
    <3>1. k \in 1..(Len(q) + 1) /\ n \in (k - 1)..Len(q) /\ l \in n..Len(q)
      BY <1>1
    <3> HIDE DEF k, l
    <3>2. SubSeq(q, k, n) \o SubSeq(q, n + 1, l) = SubSeq(q, k, l)
      BY <3>1, ConcatAdjacentSubSeq
    <3> QED BY <3>2 DEF k, l
  <2> QED BY <2>2, SubSeqFull
<1> HIDE DEF p, r
<1>4. Numbered(q) = Numbered(p) + Numbered(r)
  BY <1>2, <1>3, NumberedConcat
<1> QED BY <1>2, <1>4 DEF p, r

LEMMA NumberedOne ==
  /\ << >> \in Seq(ToClients) /\ Numbered(<< >>) = 0
  /\ \A type \in {"A", "H"} : <<type>> \in Seq(ToClients) /\ Numbered(<<type>>) = 0
<1>1. {i \in DOMAIN << >> : << >>[i] = "S"} = {} /\ << >> \in Seq(ToClients)
  OBVIOUS
<1>2. ASSUME NEW type \in {"A", "H"}
      PROVE  <<type>> \in Seq(ToClients) /\ {i \in DOMAIN <<type>> : <<type>>[i] = "S"} = {}
  <2>1. <<type>> \in Seq(ToClients) /\ Len(<<type>>) = 1 /\ <<type>>[1] = type /\ DOMAIN <<type>> = 1..1
    BY DEF ToClients
  <2> QED BY <2>1
<1> QED BY <1>1, <1>2, FS_EmptySet DEF Numbered

LEMMA NumberedSpoken ==
  ASSUME NEW n \in Nat, NEW q, q = [i \in 1..n |-> "S"]
  PROVE  q \in Seq(ToClients) /\ Numbered(q) = n
<1>1. DOMAIN q = 1..n /\ \A i \in 1..n : q[i] = "S"
  OBVIOUS
<1>2. q \in Seq(ToClients)
  BY SeqDef DEF ToClients
<1>3. {i \in DOMAIN q : q[i] = "S"} = 1..n
  BY <1>1
<1>4. Cardinality(1..n) = n
  BY FS_Interval
<1> QED BY <1>2, <1>3, <1>4 DEF Numbered

-----------------------------------------------------------------------------
(* What a client counts.                                                   *)

Alive == {"AwaitingLogin", "LoggedIn"}
ClientSessions == [state : Alive \union TerminalStates, sent : Nat, heard : Nat, seq : Nat]

\* t follows s after n numbered messages, and a session never comes back.
Counts(s, t, n) ==
  t \in ClientSessions /\ (t.state \in Alive => s.state \in Alive /\ t.seq = s.seq + n)

\* One frame.
LEMMA ClientDispatchCounts ==
  ASSUME NEW s \in ClientSessions, NEW type
  PROVE  Counts(s, ClientDispatch(s, type), IF type = "S" THEN 1 ELSE 0)
<1> DEFINE d == IF type = "S" THEN 1 ELSE 0
           t == ClientDispatch(s, type)
<1> USE DEF Alive, TerminalStates
<1>1. /\ s = [state |-> s.state, sent |-> s.sent, heard |-> s.heard, seq |-> s.seq]
      /\ s.state \in Alive \union TerminalStates /\ s.sent \in Nat /\ s.heard \in Nat /\ s.seq \in Nat
  BY DEF ClientSessions
<1>2. ASSUME NEW state \in Alive \union TerminalStates, t = [s EXCEPT !.state = state]
      PROVE  t \in ClientSessions /\ t.state = state /\ t.seq = s.seq
  BY <1>1, <1>2 DEF ClientSessions
<1>3. \/ t = s /\ (type = "S" => s.state = "ProtocolViolation")
      \/ type = "A" /\ s.state = "AwaitingLogin" /\ t = [s EXCEPT !.state = "LoggedIn"]
      \/ type = "S" /\ s.state = "LoggedIn" /\ t = [s EXCEPT !.seq = @ + 1]
      \/ \E state \in {"Rejected", "Ended", "ProtocolViolation"} : t = [s EXCEPT !.state = state]
  BY DEF ClientDispatch
<1> HIDE DEF t
<1>4. ASSUME t = s /\ (type = "S" => s.state = "ProtocolViolation")
      PROVE  Counts(s, t, d)
  BY <1>1, <1>4 DEF Counts
<1>5. ASSUME type = "A" /\ s.state = "AwaitingLogin" /\ t = [s EXCEPT !.state = "LoggedIn"]
      PROVE  Counts(s, t, d)
  BY <1>1, <1>2, <1>5 DEF Counts
<1>6. ASSUME type = "S" /\ s.state = "LoggedIn" /\ t = [s EXCEPT !.seq = @ + 1]
      PROVE  Counts(s, t, d)
  <2> DEFINE k == s.seq + 1
  <2>1. k \in Nat /\ t = [s EXCEPT !.seq = k]
    BY <1>1, <1>6
  <2> HIDE DEF k
  <2>2. t \in ClientSessions /\ t.state = s.state /\ t.seq = k
    BY <1>1, <2>1 DEF ClientSessions
  <2> QED BY <1>6, <2>2 DEF Counts, k
<1>7. ASSUME \E state \in {"Rejected", "Ended", "ProtocolViolation"} : t = [s EXCEPT !.state = state]
      PROVE  Counts(s, t, d)
  BY <1>1, <1>2, <1>7 DEF Counts
<1>8. Counts(s, t, d)
  BY <1>3, <1>4, <1>5, <1>6, <1>7
<1> QED BY <1>8 DEF t

\* A read: a client that is still in its session has counted every numbered
\* frame of it.
LEMMA ReadCounts ==
  ASSUME NEW s \in ClientSessions, NEW q \in Seq(ToClients)
  PROVE  Counts(s, FoldLeft(ClientDispatch, s, q), Numbered(q))
<1> DEFINE n == Len(q)
           upto(k) == {i \in 1..k : q[i] = "S"}
           N(k) == Cardinality(upto(k))
<1>1. n \in Nat /\ DOMAIN q = 1..n /\ \A i \in 1..n : q[i] \in ToClients
  BY LenProperties, ElementOfSeq
<1>2. N(n) = Numbered(q)
  BY <1>1 DEF Numbered
<1> HIDE DEF n
<1>3. PICK run : IsRun(run, s, q, n)
  <2>1. n \in Nat /\ Spans(q, n)
    BY <1>1 DEF Spans
  <2> QED BY <2>1, ReadIsRun
<1>4. /\ run[n] = FoldLeft(ClientDispatch, s, q) /\ run[0] = s
      /\ \A k \in 1..n : run[k] = ClientDispatch(run[k - 1], q[k])
  BY <1>3 DEF IsRun
<1> DEFINE Good(k) == Counts(s, run[k], N(k))
           B == {k \in 0..n : ~Good(k)}
<1>5. SUFFICES ASSUME B /= {} PROVE FALSE
  <2>1. Good(n)
    <3> HIDE DEF Good
    <3>1. n \in 0..n /\ B = {}
      BY <1>1, <1>5
    <3> QED BY <3>1
  <2> QED BY <1>2, <1>4, <2>1
<1>6. PICK k \in B : \A m \in B : k <= m
  <2>1. B \in SUBSET (0..n)
    OBVIOUS
  <2> HIDE DEF B
  <2> QED BY <1>1, <1>5, <2>1, LeastNumber
<1>7. k \in 0..n /\ ~Good(k)
  BY <1>6
<1>8. CASE k = 0
  <2>1. upto(0) = {}
    OBVIOUS
  <2>2. N(0) = 0
    BY <2>1, FS_EmptySet
  <2>3. s.seq + 0 = s.seq
    BY DEF ClientSessions
  <2> QED BY <1>4, <1>7, <1>8, <2>2, <2>3 DEF Counts
<1>9. CASE k /= 0
  <2> DEFINE j == k - 1
             d == IF q[k] = "S" THEN 1 ELSE 0
             type == q[k]
             u == run[j]
  <2>1. j \in 0..n /\ k \in 1..n /\ j \in Nat /\ ~(k <= j)
    BY <1>1, <1>7, <1>9
  <2>2. Good(j)
    BY <1>6, <2>1
  <2>3. N(k) = N(j) + d /\ N(j) \in Nat
    <3> DEFINE A == upto(j)
    <3>1. IsFiniteSet(A)
      <4>1. IsFiniteSet(1..j) /\ A \in SUBSET (1..j)
        BY <2>1, FS_Interval
      <4> QED BY <4>1, FS_Subset
    <3>2. k \notin A /\ upto(k) = IF q[k] = "S" THEN A \union {k} ELSE A
      BY <1>1, <2>1
    <3> HIDE DEF A, j, upto
    <3>3. CASE q[k] = "S"
      <4>1. Cardinality(A \union {k}) = Cardinality(A) + 1
        BY <3>1, <3>2, FS_AddElement
      <4> QED BY <3>1, <3>2, <3>3, <4>1, FS_CardinalityType DEF A
    <3>4. CASE q[k] /= "S"
      <4>1. Cardinality(A) \in Nat
        BY <3>1, FS_CardinalityType
      <4> QED BY <3>2, <3>4, <4>1 DEF A
    <3> QED BY <3>3, <3>4
  <2>4. run[k] = ClientDispatch(u, type)
    BY <1>4, <2>1
  <2> DEFINE v == run[k]
             a == N(j)
             b == N(k)
  <2>5. Counts(s, u, a)
    BY <2>2
  <2>6. Counts(u, v, d)
    <3>1. u \in ClientSessions
      BY <2>5 DEF Counts
    <3> HIDE DEF u
    <3>2. Counts(u, ClientDispatch(u, type), IF type = "S" THEN 1 ELSE 0)
      BY <3>1, ClientDispatchCounts
    <3> QED BY <2>4, <3>2
  <2>7. ~Counts(s, v, b)
    BY <1>7
  <2>8. b = a + d /\ a \in Nat /\ d \in Nat
    BY <2>3
  <2> HIDE DEF u, v, a, b, d
  <2>9. s.seq \in Nat /\ (v.state \in Alive => s.seq + a + d = s.seq + b)
    BY <2>8 DEF ClientSessions
  <2> QED BY <2>5, <2>6, <2>7, <2>8, <2>9 DEF Counts
<1> QED BY <1>8, <1>9

\* The clock, the sends and the end of a read count nothing.
LEMMA ClientSets ==
  ASSUME NEW s \in ClientSessions
  PROVE  /\ Counts(s, Sent(s), 0)
         /\ Counts(s, Older(s), 0) /\ Older(s).seq = s.seq
         /\ \A before : Heard(s, before) \in ClientSessions /\ Heard(s, before).state = s.state
                       /\ Heard(s, before).seq = s.seq
         /\ \A n \in Nat, state \in TerminalStates : Counts(s, Expired(s, n, state), 0)
                                                   /\ Expired(s, n, state).seq = s.seq
         /\ Sent(s).seq = s.seq
<1>1. /\ s = [state |-> s.state, sent |-> s.sent, heard |-> s.heard, seq |-> s.seq]
      /\ s.state \in Alive \union TerminalStates /\ s.sent \in Nat /\ s.heard \in Nat /\ s.seq \in Nat
      /\ s.seq + 0 = s.seq
  BY DEF ClientSessions
<1>2. Counts(s, Sent(s), 0) /\ Sent(s).seq = s.seq
  <2>1. Sent(s) \in ClientSessions /\ Sent(s).seq = s.seq /\ Sent(s).state = s.state
    BY <1>1 DEF Sent, ClientSessions
  <2> QED BY <1>1, <2>1 DEF Counts
<1>3. Counts(s, Older(s), 0) /\ Older(s).seq = s.seq
  <2> DEFINE a == Min({s.sent + 1, Oldest})
             b == Min({s.heard + 1, Oldest})
  <2>1. \A x \in Nat : Min({x + 1, Oldest}) \in Nat
    <3> SUFFICES ASSUME NEW x \in Nat PROVE Min({x + 1, Oldest}) \in Nat
      OBVIOUS
    <3> DEFINE y == x + 1
               z == Oldest
    <3>1. y \in Nat /\ z \in Nat
      BY OldestFacts
    <3> HIDE DEF y, z
    <3>2. Min({y, z}) = IF y <= z THEN y ELSE z
      BY <3>1, MinOfTwo
    <3>3. Min({y, z}) \in Nat
      BY <3>1, <3>2
    <3> QED BY <3>3 DEF y, z
  <2>2. Older(s) = [s EXCEPT !.sent = a, !.heard = b] /\ a \in Nat /\ b \in Nat
    BY <1>1, <2>1 DEF Older
  <2> HIDE DEF a, b
  <2>3. Older(s) \in ClientSessions /\ Older(s).seq = s.seq /\ Older(s).state = s.state
    BY <1>1, <2>2 DEF ClientSessions
  <2> QED BY <1>1, <2>3 DEF Counts
<1>4. \A before : Heard(s, before) \in ClientSessions /\ Heard(s, before).state = s.state
                 /\ Heard(s, before).seq = s.seq
  BY <1>1 DEF Heard, ClientSessions
<1>5. ASSUME NEW n \in Nat, NEW state \in TerminalStates
      PROVE  Counts(s, Expired(s, n, state), 0) /\ Expired(s, n, state).seq = s.seq
  <2> DEFINE t == [s EXCEPT !.state = state]
  <2>1. t \in ClientSessions /\ t.seq = s.seq /\ t.state = state /\ state \notin Alive
    BY <1>1 DEF ClientSessions, Alive, TerminalStates
  <2>2. Expired(s, n, state) \in {s, t}
    BY DEF Expired
  <2> HIDE DEF t
  <2> QED BY <1>1, <2>1, <2>2 DEF Counts
<1> QED BY <1>2, <1>3, <1>4, <1>5

-----------------------------------------------------------------------------
(* The two ends of a connection.                                           *)

Unmet == link[1] \in {"none", "waiting"}
LinkStates == {"none", "waiting", "open", "closed", "silent"}
WireTypes ==
  /\ out \in Seq(ToClients) /\ toClient \in [Connections -> Seq(ToClients)]
  /\ cli \in [Connections -> ClientSessions] /\ link \in [Connections -> LinkStates]

\* Before the first connection is accepted the server has said nothing.
Fresh ==
  Unmet => /\ conn = 0 /\ srv = NoSession /\ phase /= "dispatch" /\ out = << >>
           /\ toClient[1] = << >> /\ cli[1].seq = 0
           /\ link[2] \in {"none", "waiting"} /\ (link[1] = "none" => link[2] = "none")

Balanced(said, heard, wire, queue) ==
  said = 1 + heard + Numbered(wire) + Numbered(queue)
Balance ==
  conn = 1 /\ link[1] = "open" /\ cli[1].state \in Alive =>
    Balanced(srv.seq, cli[1].seq, toClient[1], out)

\* With IInv, inductive.
SInv == WireTypes /\ Fresh /\ Balance

\* The server queues k numbered messages and counts them.
Says ==
  /\ out' \in Seq(ToClients)
  /\ \E k \in Nat : srv'.seq = srv.seq + k /\ Numbered(out') = Numbered(out) + k
Tells == \E n \in Nat : srv' = Speak(srv, n) /\ out' = out \o Spoken(srv, n)

LEMMA SaidNothing ==
  ASSUME srv \in Sessions, out \in Seq(ToClients), srv'.seq = srv.seq,
         NEW q \in Seq(ToClients), Numbered(q) = 0, out' \in {out, out \o q}
  PROVE  Says
<1>1. srv.seq \in Nat /\ Numbered(out) \in Nat
  BY NumberedType DEF Sessions
<1>2. out \o q \in Seq(ToClients) /\ Numbered(out \o q) = Numbered(out) + Numbered(q)
  BY NumberedConcat
<1>3. out' \in Seq(ToClients) /\ Numbered(out') = Numbered(out)
  <2>1. CASE out' = out
    BY <2>1
  <2>2. CASE out' = out \o q
    BY <1>1, <1>2, <2>2
  <2> QED BY <2>1, <2>2
<1>4. Numbered(out') = Numbered(out) + 0 /\ srv'.seq = srv.seq + 0
  BY <1>1, <1>3
<1> QED BY <1>3, <1>4 DEF Says

LEMMA TellsSays ==
  ASSUME srv \in Sessions, out \in Seq(ToClients), Tells
  PROVE  Says /\ (srv = NoSession => srv' = srv /\ out' = out)
<1>1. PICK n \in Nat : srv' = Speak(srv, n) /\ out' = out \o Spoken(srv, n)
  BY DEF Tells
<1>2. srv.seq \in Nat /\ Numbered(out) \in Nat
  BY NumberedType DEF Sessions
<1>3. CASE srv.state = "LoggedIn"
  <2> DEFINE q == Spoken(srv, n)
  <2>1. q = [i \in 1..n |-> "S"]
    BY <1>3 DEF Spoken
  <2>2. out' = out \o q
    BY <1>1
  <2> HIDE DEF q
  <2>3. q \in Seq(ToClients) /\ Numbered(q) = n
    BY <2>1, NumberedSpoken
  <2>4. out' \in Seq(ToClients) /\ Numbered(out') = Numbered(out) + n
    BY <2>2, <2>3, NumberedConcat
  <2>5. srv'.seq = srv.seq + n
    <3>1. srv' = Sequenced(srv, n)
      BY <1>1, <1>3 DEF Speak
    <3>2. CASE n = 0
      BY <1>2, <3>1, <3>2 DEF Sequenced
    <3>3. CASE n /= 0
      <4>1. srv' = Sent([srv EXCEPT !.seq = @ + n])
        BY <3>1, <3>3 DEF Sequenced
      <4> QED BY <4>1 DEF Sent, Sessions
    <3> QED BY <3>2, <3>3
  <2>6. srv /= NoSession
    BY <1>3 DEF NoSession
  <2> QED BY <2>4, <2>5, <2>6 DEF Says
<1>4. CASE srv.state /= "LoggedIn"
  <2>1. srv' = srv /\ out' = out \o << >>
    BY <1>1, <1>4 DEF Speak, Spoken
  <2>2. out' = out
    BY <2>1
  <2> QED BY <2>1, <2>2, SaidNothing, NumberedOne
<1> QED BY <1>3, <1>4

LEMMA ServerSays ==
  ASSUME srv \in Sessions, SInv, Says, conn' = conn, cli' = cli, link' = link,
         toClient' = toClient,
         Unmet => srv' = srv /\ out' = out /\ phase' /= "dispatch"
  PROVE  SInv'
<1>1. WireTypes'
  BY DEF SInv, WireTypes, Says
<1>2. Unmet' = Unmet
  BY DEF Unmet
<1>3. Fresh'
  BY <1>2 DEF SInv, Fresh
<1>4. Balance'
  <2> SUFFICES ASSUME conn = 1, link[1] = "open", cli[1].state \in Alive
               PROVE  Balanced(srv'.seq, cli[1].seq, toClient[1], out')
    BY DEF Balance
  <2> DEFINE a == cli[1].seq
             w == toClient[1]
             b == Numbered(w)
             c == Numbered(out)
             d == Numbered(out')
             s == srv.seq
             t == srv'.seq
  <2>1. Balanced(s, a, w, out)
    BY DEF SInv, Balance
  <2>2. PICK k \in Nat : t = s + k /\ d = c + k
    BY DEF Says
  <2>3. a \in Nat /\ b \in Nat /\ c \in Nat
    <3>1. cli[1] \in ClientSessions /\ w \in Seq(ToClients) /\ out \in Seq(ToClients)
      BY DEF SInv, WireTypes, Connections
    <3> HIDE DEF w
    <3> QED BY <3>1, NumberedType DEF ClientSessions
  <2>4. s = 1 + a + b + c
    BY <2>1 DEF Balanced
  <2> HIDE DEF a, b, c, d, s, t
  <2>5. t = 1 + a + b + d
    BY <2>2, <2>3, <2>4
  <2> QED BY <2>5 DEF Balanced, a, b, d, t
<1> QED BY <1>1, <1>3, <1>4 DEF SInv

-----------------------------------------------------------------------------
(* The gateway speaks.                                                     *)

LEMMA MessagesCount ==
  ASSUME NEW fills, IsFiniteSet(fills), NEW g
  PROVE  ExecutedMessages(g, fills) \in Nat
<1> DEFINE A == {f \in fills : f.taker \in Ours(g)}
           B == {f \in fills : f.maker \in Ours(g)}
<1>1. A \in SUBSET fills /\ B \in SUBSET fills
  OBVIOUS
<1>2. ExecutedMessages(g, fills) = Cardinality(A) + Cardinality(B)
  BY DEF ExecutedMessages
<1> HIDE DEF A, B
<1>3. Cardinality(A) \in Nat /\ Cardinality(B) \in Nat
  BY <1>1, FS_Subset, FS_CardinalityType
<1> QED BY <1>2, <1>3

LEMMA FillsFinite ==
  ASSUME NEW bk, IsFiniteSet(bk), NEW ref, NEW order
  PROVE  IsFiniteSet(Fills(bk, ref, order))
<1> DEFINE R == Reached(bk, order)
           f == [e \in R |-> Fill(ref, e, Taken(bk, order, e))]
           F == {f[e] : e \in R}
<1>1. R \in SUBSET bk
  BY DEF Reached
<1>2. Fills(bk, ref, order) \in SUBSET F
  BY DEF Fills
<1> HIDE DEF R, f
<1>3. IsFiniteSet(R)
  BY <1>1, FS_Subset
<1>4. IsFiniteSet(F)
  BY <1>3, ImageFinite
<1> HIDE DEF F
<1> QED BY <1>2, <1>4, FS_Subset

LEMMA EnteredTells ==
  ASSUME NEW g, NEW mir, NEW tld, NEW tok, NEW ref, NEW order, NEW res, NEW earlier \in Nat,
         IsFiniteSet(res.fills), Entered(g, mir, tld, tok, ref, order, res, earlier)
  PROVE  Tells
<1> DEFINE bound == [g EXCEPT !.token[tok] = ref,
                             !.live = IF Done(res.state) THEN @ ELSE @ \union {ref}]
           m == ExecutedMessages(bound, res.fills)
           said == earlier + 1 + m
<1>1. srv' = Speak(srv, said) /\ out' = out \o Spoken(srv, said)
  BY DEF Entered
<1>2. m \in Nat
  <2> HIDE DEF bound
  <2> QED BY MessagesCount
<1> HIDE DEF m
<1>3. said \in Nat
  BY <1>2
<1> HIDE DEF said
<1> QED BY <1>1, <1>3 DEF Tells

LEMMA AnswerTells ==
  ASSUME NEW n \in {0, 1, 2}, srv' = Speak(srv, n), out' = out \o Spoken(srv, n)
  PROVE  Tells
BY DEF Tells

\* A message of the client is answered, or not.
LEMMA OuchTells ==
  ASSUME IsFiniteSet(book), NEW f, OnOuch(f), f.ouch \in {"enter", "replace", "cancel"}
  PROVE  Tells \/ (srv' = srv /\ out' = out)
<1>1. CASE f.ouch = "enter"
  <2> DEFINE tok == f.token
             order == f.order
             fills == Fills(book, NextRef, order)
             res == Submitted(orders, book, NextRef, order, fills)
  <2>1. OnEnter(tok, order)
    BY <1>1 DEF OnOuch
  <2> HIDE DEF tok, order
  <2>2. \/ Reject
        \/ srv' = Speak(srv, 1) /\ out' = out \o Spoken(srv, 1)
        \/ Entered(gw, mirror, told, tok, NextRef, order, res, 0)
    BY <2>1 DEF OnEnter
  <2>3. res.fills = fills
    BY DEF Submitted
  <2>4. IsFiniteSet(fills)
    BY FillsFinite
  <2> HIDE DEF res, fills
  <2> QED BY <2>2, <2>3, <2>4, EnteredTells, AnswerTells DEF Reject
<1>2. CASE f.ouch = "replace"
  <2> DEFINE tok == f.token
             fresh == f.fresh
             order == f.order
  <2>1. OnReplace(tok, fresh, order)
    BY <1>2 DEF OnOuch
  <2> HIDE DEF tok, fresh, order
  <2> DEFINE old == gw.token[tok]
             new == [order EXCEPT !.side = orders[old].side, !.stock = TRUE]
             left == Removed(book, old)
             fills == Fills(left, NextRef, new)
             res == Submitted([orders EXCEPT ![old] = Withdrawn(@)], left, NextRef, new, fills)
             without == [gw EXCEPT !.live = @ \ {old}]
             cut == TellIf(srv, [told EXCEPT ![tok].cancelled = @ + orders[old].resting])
  <2>2. \/ Reject
        \/ srv' = Speak(srv, 2) /\ out' = out \o Spoken(srv, 2)
        \/ Entered(without, Removed(mirror, old), cut, fresh, NextRef, new, res, 1)
    BY <2>1 DEF OnReplace
  <2>3. res.fills = fills
    BY DEF Submitted
  <2>4. IsFiniteSet(fills)
    <3>1. left \in SUBSET book
      BY DEF Removed
    <3>2. IsFiniteSet(left)
      BY <3>1, FS_Subset
    <3> HIDE DEF left, new
    <3> QED BY <3>2, FillsFinite
  <2> HIDE DEF res, fills, new, without, cut, old
  <2> QED BY <2>2, <2>3, <2>4, EnteredTells, AnswerTells DEF Reject
<1>3. CASE f.ouch = "cancel"
  <2>1. OnCancel(f.token)
    BY <1>3 DEF OnOuch
  <2>2. \/ srv' = srv /\ out' = out
        \/ srv' = Speak(srv, 1) /\ out' = out \o Spoken(srv, 1)
    BY <2>1 DEF OnCancel, gwVars
  <2> QED BY <2>2, AnswerTells
<1> QED BY <1>1, <1>2, <1>3

LEMMA OuchSays ==
  ASSUME srv \in Sessions, out \in Seq(ToClients), IsFiniteSet(book), NEW f, OnOuch(f),
         f.ouch \in {"enter", "replace", "cancel"}
  PROVE  Says
<1>1. Tells \/ (srv' = srv /\ out' = out)
  BY OuchTells
<1>2. CASE srv' = srv /\ out' = out
  BY <1>2, SaidNothing, NumberedOne
<1>3. CASE Tells
  BY <1>3, TellsSays
<1> QED BY <1>1, <1>2, <1>3

LEMMA ExecutesTells ==
  ASSUME IsFiniteSet(book), NEW ref, NEW n, FeedExecutes(ref, n)
  PROVE  Tells \/ (srv' = srv /\ out' = out)
<1>1. CASE ~\E o \in book : o.ref = ref
  BY <1>1 DEF FeedExecutes
<1>2. CASE \E o \in book : o.ref = ref
  <2> DEFINE o == CHOOSE e \in book : e.ref = ref
             before(e) == Shares({f \in InFront(o) : f.place < e.place})
             take(e) == IF before(e) >= n THEN 0 ELSE Min({e.shares, n - before(e)})
             P == {f \in InFront(o) : take(f) > 0}
             F == [e \in P |-> Fill(0, e, take(e))]
             fills == {Fill(0, e, take(e)) : e \in P}
             said == ExecutedMessages(gw, fills)
  <2>1. srv' = Speak(srv, said) /\ out' = out \o Spoken(srv, said)
    BY <1>2 DEF FeedExecutes
  <2>2. P \in SUBSET book
    BY DEF InFront
  <2>3. fills = {F[e] : e \in P}
    OBVIOUS
  <2> HIDE DEF P, F, fills
  <2>4. IsFiniteSet(P)
    BY <2>2, FS_Subset
  <2>5. IsFiniteSet({F[e] : e \in P})
    BY <2>4, ImageFinite
  <2>6. IsFiniteSet(fills)
    BY <2>3, <2>5
  <2>7. said \in Nat
    BY <2>6, MessagesCount
  <2> HIDE DEF said
  <2> QED BY <2>1, <2>7 DEF Tells
<1> QED BY <1>1, <1>2

-----------------------------------------------------------------------------
(* One lemma for each action.                                              *)

\* A step that the two counts do not notice.
LEMMA CountsSame ==
  ASSUME IInv, SInv, srv' = srv, out' = out, conn' = conn, cli' = cli, link' = link,
         toClient' = toClient, Unmet => phase' /= "dispatch"
  PROVE  SInv'
<1>1. srv \in Sessions /\ out \in Seq(ToClients)
  BY DEF IInv, MarketOK, SInv, WireTypes
<1>2. Says
  BY <1>1, SaidNothing, NumberedOne
<1> QED BY <1>1, <1>2, ServerSays

\* A step of the server alone.
LEMMA ServerActs ==
  ASSUME IInv, SInv, Says, UNCHANGED <<conn, wireVars>>,
         Unmet => srv' = srv /\ out' = out /\ phase' /= "dispatch"
  PROVE  SInv'
<1>1. srv \in Sessions
  BY DEF IInv, MarketOK
<1>2. conn' = conn /\ cli' = cli /\ link' = link /\ toClient' = toClient
  BY DEF wireVars
<1> QED BY <1>1, <1>2, ServerSays

LEMMA TickCounts ==
  ASSUME IInv, SInv, Tick
  PROVE  SInv'
<1>1. UNCHANGED <<conn, wireVars>> /\ phase' = "poll" /\ srv \in Sessions /\ out \in Seq(ToClients)
  BY DEF Tick, IInv, MarketOK, SInv, WireTypes
<1>2. Unmet => srv = NoSession
  BY DEF SInv, Fresh
<1>3. CASE Server \in due /\ srv /= NoSession
  <2> DEFINE q == ServerTick(srv).frames
             u == ServerTimedOut(srv)
             t == ServerTick(srv).session
  <2>1. srv' = t /\ out' = out \o q
    BY <1>3 DEF Tick
  <2>2. q \in {<< >>, <<"H">>}
    BY DEF ServerTick
  <2>3. u.seq = srv.seq /\ t.seq = u.seq
    BY <1>1 DEF ServerTick, ServerTimedOut, Expired, Sent, Sessions
  <2> HIDE DEF q, t, u
  <2>4. q \in Seq(ToClients) /\ Numbered(q) = 0
    BY <2>2, NumberedOne
  <2>5. Says
    BY <1>1, <2>1, <2>3, <2>4, SaidNothing
  <2> QED BY <1>1, <1>2, <1>3, <2>5, ServerActs
<1>4. CASE ~(Server \in due /\ srv /= NoSession)
  <2>1. srv' = srv /\ out' = out
    BY <1>4 DEF Tick
  <2> QED BY <1>1, <2>1, CountsSame DEF wireVars
<1> QED BY <1>3, <1>4

LEMMA FirstWaiting ==
  ASSUME Waiting /= {}
  PROVE  Min(Waiting) \in Waiting
<1> DEFINE W == Waiting
<1>1. W \subseteq {1, 2} /\ W /= {}
  BY DEF Waiting, Connections
<1>2. \E x \in W : \A y \in W : x <= y
  <2> HIDE DEF W
  <2>1. CASE 1 \in W
    <3>1. \A y \in W : 1 <= y
      BY <1>1
    <3> QED BY <2>1, <3>1
  <2>2. CASE 1 \notin W
    <3>1. \A y \in W : y = 2
      BY <1>1, <2>2
    <3>2. \A x, y \in W : x <= y
      BY <3>1
    <3> QED BY <1>1, <3>2
  <2> QED BY <2>1, <2>2
<1> QED BY <1>2 DEF Min

LEMMA AcceptCounts ==
  ASSUME SInv, Accept
  PROVE  SInv'
<1> DEFINE c == Min(Waiting)
<1>1. /\ conn' = c /\ link' = [link EXCEPT ![c] = "open"] /\ srv' = ServerOpened
      /\ phase' = "replay" /\ UNCHANGED <<out, cli, toClient>> /\ c \in Waiting
  BY FirstWaiting DEF Accept
<1>2. c \in Connections /\ link[c] = "waiting" /\ link \in [Connections -> LinkStates]
  BY <1>1 DEF Waiting, SInv, WireTypes
<1> HIDE DEF c
<1>3. WireTypes'
  BY <1>1, <1>2 DEF SInv, WireTypes, LinkStates
<1>4. CASE c = 1
  <2>1. Unmet /\ link'[1] = "open"
    BY <1>1, <1>2, <1>4 DEF Unmet, Connections
  <2>2. out = << >> /\ toClient[1] = << >> /\ cli[1].seq = 0
    BY <2>1 DEF SInv, Fresh
  <2>3. srv'.seq = 1
    BY <1>1 DEF ServerOpened, Opened
  <2>4. Balanced(srv'.seq, cli'[1].seq, toClient'[1], out')
    BY <1>1, <2>2, <2>3, NumberedOne DEF Balanced
  <2>5. Fresh' /\ Balance'
    BY <2>1, <2>4 DEF Fresh, Unmet, Balance
  <2> QED BY <1>3, <2>5 DEF SInv
<1>5. CASE c = 2
  <2>1. link'[1] = link[1] /\ conn' = 2
    BY <1>1, <1>2, <1>5 DEF Connections
  <2>2. link[1] /= "waiting" /\ link[2] = "waiting"
    <3>1. CASE 1 \in Waiting
      <4>1. \E x \in Waiting : \A y \in Waiting : x <= y
        <5>1. Waiting \subseteq {1, 2}
          BY DEF Waiting, Connections
        <5>2. \A y \in Waiting : 1 <= y
          BY <5>1
        <5> QED BY <3>1, <5>2
      <4>2. Min(Waiting) <= 1
        BY <3>1, <4>1 DEF Min
      <4> QED BY <1>5, <4>2 DEF c
    <3>2. CASE 1 \notin Waiting
      BY <1>2, <1>5, <3>2 DEF Waiting, Connections
    <3> QED BY <3>1, <3>2
  <2>3. ~Unmet
    BY <2>2 DEF SInv, Fresh, Unmet
  <2>4. Fresh' /\ Balance'
    BY <2>1, <2>3 DEF Fresh, Unmet, Balance
  <2> QED BY <1>3, <2>4 DEF SInv
<1> QED BY <1>2, <1>4, <1>5 DEF Connections

LEMMA DispatchCounts ==
  ASSUME IInv, SInv, Dispatch
  PROVE  SInv'
<1> DEFINE f == Head(chunk)
           s == ServerDispatch(srv, f.type)
<1>1. /\ UNCHANGED <<conn, wireVars>> /\ phase = "dispatch" /\ chunk /= << >>
      /\ chunk \in Seq(Frames) /\ srv \in Sessions /\ out \in Seq(ToClients)
      /\ IF f.type = "U" /\ s.state = "LoggedIn" THEN OnOuch(f) ELSE srv' = s /\ out' = out
  BY DEF Dispatch, IInv, MarketOK, FramesOK, SInv, WireTypes
<1>2. ~Unmet
  BY <1>1 DEF SInv, Fresh
<1>3. f \in Frames
  BY <1>1
<1>4. s.seq = srv.seq
  BY <1>1 DEF ServerDispatch, Sessions
<1> HIDE DEF f, s
<1>5. Says
  <2>1. CASE f.type = "U" /\ s.state = "LoggedIn"
    <3>1. f.ouch \in {"enter", "replace", "cancel"}
      <4>1. f \in Orders \union Cancels
        BY <1>3, <2>1, FrameFacts
      <4> QED BY <4>1 DEF Orders, Enters, Replaces, Cancels
    <3>2. IsFiniteSet(book)
      BY DEF IInv, MarketOK, Core, BookOK
    <3> QED BY <1>1, <2>1, <3>1, <3>2, OuchSays
  <2>2. CASE ~(f.type = "U" /\ s.state = "LoggedIn")
    BY <1>1, <1>4, <2>2, SaidNothing, NumberedOne
  <2> QED BY <2>1, <2>2
<1> QED BY <1>1, <1>2, <1>5, ServerActs

LEMMA EndReadCounts ==
  ASSUME IInv, SInv, EndRead
  PROVE  SInv'
<1> DEFINE h == Heard(srv, entered)
           s == IF h.state = "LoginReceived" THEN LoginAccepted(h) ELSE h
           q == <<"A">>
<1>1. /\ UNCHANGED <<conn, wireVars>> /\ phase = "dispatch" /\ phase' = "read"
      /\ srv \in Sessions /\ out \in Seq(ToClients)
      /\ srv' = s /\ out' \in {out, Append(out, "A")}
  BY DEF EndRead, IInv, MarketOK, SInv, WireTypes
<1>2. ~Unmet
  BY <1>1 DEF SInv, Fresh
<1>3. s.seq = srv.seq
  <2>1. h.seq = srv.seq /\ h \in Sessions
    BY <1>1 DEF Heard, Sessions
  <2> HIDE DEF h
  <2>2. LoginAccepted(h).seq = h.seq
    BY <2>1 DEF LoginAccepted, Sent, Sessions
  <2> QED BY <2>1, <2>2
<1>4. q \in Seq(ToClients) /\ Numbered(q) = 0
  BY NumberedOne
<1>5. Append(out, "A") = out \o q
  BY <1>1
<1> HIDE DEF q, s
<1>6. Says
  BY <1>1, <1>3, <1>4, <1>5, SaidNothing
<1> QED BY <1>1, <1>2, <1>6, ServerActs

LEMMA ReplayCounts ==
  ASSUME IInv, SInv, Replay
  PROVE  SInv'
<1>1. /\ UNCHANGED <<conn, wireVars>> /\ phase' = "drain" /\ srv \in Sessions
      /\ out \in Seq(ToClients) /\ ReplayApplies /\ IsFiniteSet(book)
  BY DEF Replay, IInv, MarketOK, Core, BookOK, SInv, WireTypes
<1>2. Tells \/ (srv' = srv /\ out' = out)
  <2>1. CASE \E ref \in History : \E n \in 1..past[ref] : FeedExecutes(ref, n)
    BY <1>1, <2>1, ExecutesTells
  <2>2. CASE ~\E ref \in History : \E n \in 1..past[ref] : FeedExecutes(ref, n)
    BY <1>1, <2>2 DEF ReplayApplies, FeedAdds, FeedReduces, FeedDeletes, FeedReplaces
  <2> QED BY <2>1, <2>2
<1>3. Unmet => srv = NoSession
  BY DEF SInv, Fresh
<1>4. Says /\ (srv = NoSession => srv' = srv /\ out' = out)
  <2>1. CASE Tells
    BY <1>1, <2>1, TellsSays
  <2>2. CASE srv' = srv /\ out' = out
    BY <1>1, <2>2, SaidNothing, NumberedOne
  <2> QED BY <1>2, <2>1, <2>2
<1> QED BY <1>1, <1>3, <1>4, ServerActs

LEMMA ClientTickSets ==
  ASSUME NEW s \in ClientSessions
  PROVE  Counts(s, ClientTick(s).session, 0) /\ ClientTick(s).session.seq = s.seq
<1> DEFINE u == ClientTimedOut(s)
<1>1. Counts(s, u, 0) /\ u.seq = s.seq
  <2>1. s.state \in Alive \union TerminalStates /\ s.seq \in Nat
    BY DEF ClientSessions
  <2>2. Counts(s, s, 0)
    BY <2>1 DEF Counts
  <2>3. LoginResponseTimeout \in Nat /\ ServerDeadAfter \in Nat
    BY TimersAssumption
  <2>4. "LoginTimedOut" \in TerminalStates /\ "Dead" \in TerminalStates
    BY DEF TerminalStates
  <2> DEFINE a == Expired(s, LoginResponseTimeout, "LoginTimedOut")
             b == Expired(s, ServerDeadAfter, "Dead")
  <2>5. Counts(s, a, 0) /\ a.seq = s.seq /\ Counts(s, b, 0) /\ b.seq = s.seq
    BY <2>3, <2>4, ClientSets
  <2>6. u \in {s, a, b}
    BY DEF ClientTimedOut
  <2> HIDE DEF a, b, u
  <2> QED BY <2>2, <2>5, <2>6
<1> DEFINE t == ClientTick(s).session
<1>2. t \in {u, Sent(u)}
  BY DEF ClientTick
<1> HIDE DEF u, t
<1>3. u \in ClientSessions
  BY <1>1 DEF Counts
<1>4. Counts(u, Sent(u), 0) /\ Sent(u).seq = u.seq
  BY <1>3, ClientSets
<1>5. CASE t = u
  BY <1>1, <1>5 DEF t
<1>6. CASE t = Sent(u)
  <2> DEFINE v == Sent(u)
  <2>1. Counts(u, v, 0) /\ v.seq = u.seq
    BY <1>4
  <2> HIDE DEF v
  <2>2. Counts(s, v, 0) /\ v.seq = s.seq
    <3>1. s.seq \in Nat
      BY DEF ClientSessions
    <3> QED BY <1>1, <2>1, <3>1 DEF Counts
  <2> QED BY <1>6, <2>2 DEF t, v
<1> QED BY <1>2, <1>5, <1>6

\* The clients act, and no numbered message is sent or counted.
LEMMA ClientsAct ==
  ASSUME SInv, srv'.seq = srv.seq, Unmet => srv' = srv,
         UNCHANGED <<out, conn, phase, link, toClient>>,
         DOMAIN cli' = Connections, cli' = [c \in Connections |-> cli'[c]],
         \A c \in Connections : Counts(cli[c], cli'[c], 0) /\ cli'[c].seq = cli[c].seq
  PROVE  SInv'
<1>1. WireTypes'
  BY DEF SInv, WireTypes, Counts
<1>2. 1 \in Connections
  BY DEF Connections
<1>3. Fresh'
  BY <1>2 DEF SInv, Fresh, Unmet
<1>4. cli'[1].state \in Alive => cli[1].state \in Alive
  BY <1>2 DEF Counts
<1>5. Balance'
  BY <1>2, <1>4 DEF SInv, Balance, Balanced
<1> QED BY <1>1, <1>3, <1>5 DEF SInv

\* One of them acts.
LEMMA OneActs ==
  ASSUME SInv, UNCHANGED <<srv, out, conn, phase, link, toClient>>, NEW c, NEW s,
         cli' = [cli EXCEPT ![c] = s],
         c \in Connections => Counts(cli[c], s, 0) /\ s.seq = cli[c].seq
  PROVE  SInv'
<1>1. cli \in [Connections -> ClientSessions]
  BY DEF SInv, WireTypes
<1>2. DOMAIN cli' = Connections /\ cli' = [d \in Connections |-> cli'[d]]
  BY <1>1
<1>3. ASSUME NEW d \in Connections PROVE Counts(cli[d], cli'[d], 0) /\ cli'[d].seq = cli[d].seq
  <2>1. CASE d = c
    BY <1>1, <2>1
  <2>2. CASE d /= c
    <3>1. cli'[d] = cli[d] /\ cli[d] \in ClientSessions
      BY <1>1, <2>2
    <3> QED BY <3>1 DEF Counts, ClientSessions
  <2> QED BY <2>1, <2>2
<1> QED BY <1>2, <1>3, ClientsAct

LEMMA ClientTicksCounts ==
  ASSUME SInv, ClientTicks
  PROVE  SInv'
<1>1. PICK c \in due \ {Server} : cli' = [cli EXCEPT ![c] = ClientTick(cli[c]).session]
  BY DEF ClientTicks
<1>2. UNCHANGED <<srv, out, conn, phase, link, toClient>>
  BY DEF ClientTicks, gwVars, loopVars
<1> DEFINE s == ClientTick(cli[c]).session
<1>3. c \in Connections => Counts(cli[c], s, 0) /\ s.seq = cli[c].seq
  BY ClientTickSets DEF SInv, WireTypes
<1>4. cli' = [cli EXCEPT ![c] = s]
  BY <1>1
<1> HIDE DEF s
<1> QED BY <1>2, <1>3, <1>4, OneActs

LEMMA SendsCount ==
  ASSUME SInv, SendOrder \/ SendLast
  PROVE  SInv'
<1>1. PICK c \in Connections : cli' = [cli EXCEPT ![c] = Sent(@)]
  BY DEF SendOrder, SendLast
<1>2. UNCHANGED <<srv, out, conn, phase, link, toClient>>
  BY DEF SendOrder, SendLast, gwVars, loopVars
<1> DEFINE s == Sent(cli[c])
<1>3. Counts(cli[c], s, 0) /\ s.seq = cli[c].seq
  BY ClientSets DEF SInv, WireTypes
<1>4. cli' = [cli EXCEPT ![c] = s]
  BY <1>1
<1> HIDE DEF s
<1> QED BY <1>2, <1>3, <1>4, OneActs

LEMMA PassCounts ==
  ASSUME IInv, SInv, Pass
  PROVE  SInv'
<1>1. /\ UNCHANGED <<out, conn, phase, link, toClient>>
      /\ srv' = IF srv = NoSession THEN srv ELSE Older(srv)
      /\ cli' = [c \in Connections |-> IF Talking(c) THEN Older(cli[c]) ELSE cli[c]]
  BY DEF Pass, gwVars, loopVars
<1>2. Unmet => srv' = srv
  BY <1>1 DEF SInv, Fresh
<1>3. srv'.seq = srv.seq
  <2>1. Older(srv).seq = srv.seq
    BY DEF Older, IInv, MarketOK, Sessions
  <2> QED BY <1>1, <2>1
<1>4. DOMAIN cli' = Connections /\ cli' = [d \in Connections |-> cli'[d]]
  BY <1>1
<1>5. ASSUME NEW d \in Connections PROVE Counts(cli[d], cli'[d], 0) /\ cli'[d].seq = cli[d].seq
  <2>1. cli[d] \in ClientSessions
    BY DEF SInv, WireTypes
  <2>2. Counts(cli[d], cli[d], 0)
    BY <2>1 DEF Counts, ClientSessions
  <2>3. Counts(cli[d], Older(cli[d]), 0) /\ Older(cli[d]).seq = cli[d].seq
    BY <2>1, ClientSets
  <2>4. CASE Talking(d)
    BY <1>1, <2>3, <2>4
  <2>5. CASE ~Talking(d)
    BY <1>1, <2>2, <2>5
  <2> QED BY <2>4, <2>5
<1> QED BY <1>1, <1>2, <1>3, <1>4, <1>5, ClientsAct

LEMMA ClientReadsCounts ==
  ASSUME SInv, ClientReads
  PROVE  SInv'
<1>1. PICK c \in Connections :
        /\ toClient[c] /= << >>
        /\ \E n \in Pieces(toClient[c]) :
             /\ toClient' = [toClient EXCEPT ![c] = SubSeq(@, n + 1, Len(@))]
             /\ cli' = [cli EXCEPT ![c] =
                          Heard(FoldLeft(ClientDispatch, @, SubSeq(toClient[c], 1, n)), @.state)]
  BY DEF ClientReads
<1>2. UNCHANGED <<srv, out, conn, phase, link>>
  BY DEF ClientReads, gwVars, loopVars
<1> DEFINE q == toClient[c]
           s == cli[c]
<1>3. /\ q \in Seq(ToClients) /\ s \in ClientSessions /\ toClient \in [Connections -> Seq(ToClients)]
      /\ cli \in [Connections -> ClientSessions]
  BY DEF SInv, WireTypes
<1>4. PICK n \in Pieces(q) :
        /\ toClient' = [toClient EXCEPT ![c] = SubSeq(q, n + 1, Len(q))]
        /\ cli' = [cli EXCEPT ![c] = Heard(FoldLeft(ClientDispatch, s, SubSeq(q, 1, n)), s.state)]
  BY <1>1
<1> HIDE DEF q, s
<1> DEFINE p == SubSeq(q, 1, n)
           r == SubSeq(q, n + 1, Len(q))
           u == FoldLeft(ClientDispatch, s, p)
           t == Heard(u, s.state)
<1>5. n \in 0..Len(q)
  <2>1. Len(q) \in Nat
    BY <1>3
  <2> QED BY <2>1 DEF Pieces
<1>6. p \in Seq(ToClients) /\ r \in Seq(ToClients) /\ Numbered(q) = Numbered(p) + Numbered(r)
  BY <1>3, <1>5, NumberedSplit
<1>7. toClient' = [toClient EXCEPT ![c] = r] /\ cli' = [cli EXCEPT ![c] = t]
  BY <1>4
<1> HIDE DEF p, r
<1>8. Counts(s, u, Numbered(p))
  BY <1>3, <1>6, ReadCounts
<1>9. t \in ClientSessions /\ t.state = u.state /\ t.seq = u.seq
  <2>1. u \in ClientSessions
    BY <1>8 DEF Counts
  <2> HIDE DEF u
  <2> QED BY <2>1, ClientSets
<1> HIDE DEF t, u
<1>10. WireTypes'
  BY <1>2, <1>3, <1>6, <1>7, <1>9 DEF SInv, WireTypes
<1>11. c /= 1 => cli'[1] = cli[1] /\ toClient'[1] = toClient[1]
  BY <1>3, <1>7 DEF Connections
<1>12. Fresh'
  <2>1. CASE c = 1
    BY <1>1, <1>2, <2>1 DEF SInv, Fresh, Unmet
  <2>2. CASE c /= 1
    BY <1>2, <1>11, <2>2 DEF SInv, Fresh, Unmet
  <2> QED BY <2>1, <2>2
<1>13. Balance'
  <2>1. CASE c = 1
    <3>1. cli'[1] = t /\ toClient'[1] = r
      BY <1>3, <1>7, <2>1
    <3>2. SUFFICES ASSUME conn = 1, link[1] = "open", t.state \in Alive
                   PROVE  Balanced(srv.seq, t.seq, r, out)
      BY <1>2, <3>1 DEF Balance
    <3>3. s.state \in Alive /\ t.seq = s.seq + Numbered(p)
      BY <1>8, <1>9, <3>2 DEF Counts
    <3>4. srv.seq = 1 + s.seq + Numbered(q) + Numbered(out)
      BY <2>1, <3>2, <3>3 DEF SInv, Balance, Balanced, s, q
    <3> DEFINE a == Numbered(p)
               b == Numbered(r)
               d == Numbered(out)
               e == s.seq
               x == Numbered(q)
    <3>5. a \in Nat /\ b \in Nat /\ d \in Nat /\ e \in Nat /\ x = a + b
      <4>1. out \in Seq(ToClients)
        BY DEF SInv, WireTypes
      <4> QED BY <1>3, <1>6, <4>1, NumberedType DEF ClientSessions
    <3>6. srv.seq = 1 + e + x + d /\ t.seq = e + a
      BY <3>3, <3>4
    <3> HIDE DEF a, b, d, e, x
    <3>7. srv.seq = 1 + t.seq + b + d
      BY <3>5, <3>6
    <3> QED BY <3>7 DEF Balanced, b, d
  <2>2. CASE c /= 1
    BY <1>2, <1>11, <2>2 DEF SInv, Balance
  <2> QED BY <2>1, <2>2
<1> QED BY <1>10, <1>12, <1>13 DEF SInv

LEMMA ConnectCounts ==
  ASSUME SInv, Connect
  PROVE  SInv'
<1>1. PICK c \in 1..S.connections :
        /\ link[c] = "none" /\ \A d \in 1..(c - 1) : link[d] /= "none"
        /\ link' = [link EXCEPT ![c] = "waiting"]
  BY DEF Connect
<1>2. UNCHANGED <<srv, out, conn, phase, cli, toClient>>
  BY DEF Connect, gwVars, loopVars
<1>3. link \in [Connections -> LinkStates]
  BY DEF SInv, WireTypes
<1>4. WireTypes'
  BY <1>1, <1>2, <1>3 DEF SInv, WireTypes, LinkStates
<1>5. Unmet' => Unmet
  BY <1>1, <1>3 DEF Unmet, Connections
<1>6. Fresh'
  <2> SUFFICES ASSUME Unmet' PROVE Fresh'
    BY DEF Fresh
  <2>1. Unmet /\ link[2] \in {"none", "waiting"}
    BY <1>5 DEF SInv, Fresh
  <2>2. link'[2] \in {"none", "waiting"}
    BY <1>1, <1>3, <2>1 DEF Connections
  <2>3. link'[1] = "none" => link'[2] = "none"
    <3> SUFFICES ASSUME link'[1] = "none" PROVE link'[2] = "none"
      OBVIOUS
    <3>1. link[1] = "none" /\ c /= 1
      BY <1>1, <1>3 DEF Connections
    <3>2. link[2] = "none"
      BY <2>1, <3>1 DEF SInv, Fresh
    <3>3. 1 \notin 1..(c - 1)
      BY <1>1, <3>1
    <3>4. c \in Int /\ c >= 1
      OBVIOUS
    <3> QED BY <3>1, <3>3, <3>4
  <2> QED BY <1>2, <2>1, <2>2, <2>3 DEF SInv, Fresh
<1>7. link'[1] = "open" => link[1] = "open"
  BY <1>1, <1>3 DEF Connections
<1>8. Balance'
  BY <1>2, <1>7 DEF SInv, Balance
<1> QED BY <1>4, <1>6, <1>8 DEF SInv

LEMMA LeaveCounts ==
  ASSUME IInv, SInv, Leave
  PROVE  SInv'
<1>1. PICK c \in Connections, how \in S.leave : link[c] = "open" /\ link' = [link EXCEPT ![c] = how]
  BY DEF Leave
<1>2. UNCHANGED <<srv, out, conn, phase, cli, toClient>>
  BY DEF Leave, gwVars, loopVars
<1>3. link \in [Connections -> LinkStates]
  BY DEF SInv, WireTypes
<1>4. how \in {"closed", "silent"}
  <2>1. scenario \in DOMAIN Scenarios
    BY DEF IInv, FramesOK
  <2>2. S.leave \subseteq {"closed", "silent"}
    BY <2>1, ScenariosAssumption DEF S
  <2> QED BY <2>2
<1>5. WireTypes'
  BY <1>1, <1>2, <1>3, <1>4 DEF SInv, WireTypes, LinkStates
<1>6. ~Unmet
  <2>1. CASE c = 1
    BY <1>1, <2>1 DEF Unmet
  <2>2. CASE c = 2
    BY <1>1, <2>2 DEF SInv, Fresh
  <2> QED BY <2>1, <2>2 DEF Connections
<1>7. ~Unmet'
  BY <1>1, <1>3, <1>4, <1>6 DEF Unmet, Connections
<1>8. link'[1] = "open" => link[1] = "open"
  BY <1>1, <1>3, <1>4 DEF Connections
<1>9. Balance'
  BY <1>2, <1>8 DEF SInv, Balance
<1> QED BY <1>5, <1>7, <1>9 DEF SInv, Fresh

LEMMA DrainCounts ==
  ASSUME IInv, SInv, Drain
  PROVE  SInv'
<1> DEFINE broken == conn /= 0 /\ out /= << >> /\ link[conn] = "closed"
           wrote  == conn /= 0 /\ link[conn] /= "closed"
           gone   == peerGone \/ broken
           left   == IF gone THEN 0 ELSE conn
           queue(n) == CASE gone /\ conn /= 0 -> << >>
                         [] wrote -> Unwritten(n)
                         [] OTHER -> out
<1>1. /\ out \in Seq(ToClients) /\ toClient \in [Connections -> Seq(ToClients)]
      /\ cli \in [Connections -> ClientSessions] /\ link \in [Connections -> LinkStates]
      /\ conn \in {0, 1, 2}
  BY DEF SInv, WireTypes, IInv, FramesOK
<1>2. PICK n \in (IF S.shortWrites /\ wrote THEN 0..Len(out) ELSE {Len(out)}) :
        /\ toClient' = IF wrote /\ link[conn] = "open"
                         THEN [toClient EXCEPT ![conn] = @ \o SubSeq(out, 1, n)]
                         ELSE toClient
        /\ conn' = left /\ out' = queue(n)
        /\ link' = IF gone /\ conn /= 0 THEN [link EXCEPT ![conn] = "closed"] ELSE link
        /\ phase' \in {"tick", "stopped"}
  BY DEF Drain
<1>3. UNCHANGED <<srv, cli>>
  BY DEF Drain
<1>4. n \in 0..Len(out)
  <2>1. Len(out) \in Nat
    BY <1>1
  <2> QED BY <1>2, <2>1
<1> DEFINE p == SubSeq(out, 1, n)
           r == SubSeq(out, n + 1, Len(out))
<1>5. p \in Seq(ToClients) /\ r \in Seq(ToClients) /\ Numbered(out) = Numbered(p) + Numbered(r)
  BY <1>1, <1>4, NumberedSplit
<1>6. queue(n) \in {<< >>, out, r}
  BY DEF Unwritten
<1>7. /\ toClient' = IF wrote /\ link[conn] = "open"
                       THEN [toClient EXCEPT ![conn] = @ \o p] ELSE toClient
      /\ (gone /\ conn /= 0) \/ out' = IF wrote THEN r ELSE out
  BY <1>2 DEF Unwritten
<1> HIDE DEF p, r
<1>8. WireTypes'
  <2>1. out' \in Seq(ToClients)
    <3> DEFINE rest == queue(n)
    <3>1. out' = rest /\ rest \in {<< >>, out, r}
      BY <1>2, <1>6
    <3> HIDE DEF rest
    <3> QED BY <1>1, <1>5, <3>1, NumberedOne
  <2>2. toClient' \in [Connections -> Seq(ToClients)]
    <3>1. CASE wrote /\ link[conn] = "open"
      <4>1. conn \in Connections
        BY <1>1, <3>1 DEF Connections
      <4> DEFINE w == toClient[conn]
      <4>2. w \in Seq(ToClients)
        BY <1>1, <4>1
      <4>3. w \o p \in Seq(ToClients)
        BY <1>5, <4>2, NumberedConcat
      <4>4. toClient' = [toClient EXCEPT ![conn] = w \o p]
        BY <1>7, <3>1
      <4> HIDE DEF w
      <4> QED BY <1>1, <4>1, <4>3, <4>4
    <3>2. CASE ~(wrote /\ link[conn] = "open")
      BY <1>1, <1>7, <3>2
    <3> QED BY <3>1, <3>2
  <2>3. link' \in [Connections -> LinkStates]
    BY <1>1, <1>2 DEF LinkStates
  <2> QED BY <1>1, <1>3, <2>1, <2>2, <2>3 DEF WireTypes
<1>9. Fresh'
  <2> SUFFICES ASSUME Unmet' PROVE Fresh'
    BY DEF Fresh
  <2>1. Unmet
    BY <1>1, <1>2 DEF Unmet, Connections
  <2>2. conn = 0 /\ out = << >>
    BY <2>1 DEF SInv, Fresh
  <2>3. link' = link /\ toClient' = toClient /\ conn' = 0 /\ out' = out
    BY <1>2, <2>2
  <2> QED BY <1>2, <1>3, <2>1, <2>3 DEF SInv, Fresh
<1>10. Balance'
  <2> SUFFICES ASSUME conn' = 1, link'[1] = "open", cli'[1].state \in Alive
               PROVE  Balanced(srv'.seq, cli'[1].seq, toClient'[1], out')
    BY DEF Balance
  <2>1. ~gone /\ conn = 1
    BY <1>2
  <2>2. link' = link /\ wrote
    BY <1>2, <2>1
  <2> DEFINE w == toClient[1]
  <2>3. toClient'[1] = w \o p /\ out' = r /\ w \in Seq(ToClients)
    BY <1>1, <1>7, <2>1, <2>2 DEF Connections
  <2>4. Balanced(srv.seq, cli[1].seq, w, out)
    BY <1>3, <2>1, <2>2 DEF SInv, Balance
  <2> HIDE DEF w
  <2>5. Numbered(w \o p) = Numbered(w) + Numbered(p)
    BY <1>5, <2>3, NumberedConcat
  <2> DEFINE a == cli[1].seq
             b == Numbered(w)
             d == Numbered(p)
             e == Numbered(r)
             x == Numbered(out)
             y == Numbered(w \o p)
             said == srv.seq
  <2>6. said = 1 + a + b + x /\ x = d + e /\ y = b + d
    BY <1>5, <2>4, <2>5 DEF Balanced
  <2>7. a \in Nat /\ b \in Nat /\ d \in Nat /\ e \in Nat
    BY <1>1, <1>5, <2>3, NumberedType DEF ClientSessions, Connections
  <2> HIDE DEF a, b, d, e, x, y, said
  <2>8. said = 1 + a + y + e
    BY <2>6, <2>7
  <2> QED BY <1>3, <2>3, <2>8 DEF Balanced, a, y, e, said
<1> QED BY <1>8, <1>9, <1>10 DEF SInv

LEMMA ReadCountsSame ==
  ASSUME IInv, SInv, Read
  PROVE  SInv'
<1>1. UNCHANGED <<srv, out, conn, cli, link, toClient>> /\ conn /= 0
  BY DEF Read, gwVars
<1>2. ~Unmet
  BY <1>1 DEF SInv, Fresh
<1> QED BY <1>1, <1>2, CountsSame

LEMMA RestCounts ==
  ASSUME IInv, SInv,
         NothingToAccept \/ ReadEof \/ ReadNothing \/ NothingDue \/ EndFeed \/ TripKill \/ UNCHANGED vars
  PROVE  SInv'
<1>1. Unmet => phase /= "dispatch"
  BY DEF SInv, Fresh
<1>2. UNCHANGED <<srv, out, conn, cli, link, toClient>> /\ phase' \in {phase, "read", "replay", "drain"}
  BY DEF NothingToAccept, ReadEof, ReadNothing, NothingDue, EndFeed, TripKill, Trip, vars, gwVars,
         loopVars, wireVars
<1> QED BY <1>1, <1>2, CountsSame

LEMMA InitCounts == Init => SInv
<1> SUFFICES ASSUME Init PROVE SInv
  OBVIOUS
<1>1. /\ srv = NoSession /\ phase = "tick" /\ conn = 0 /\ out = << >>
      /\ cli = [c \in Connections |-> ClientOpened]
      /\ link = [c \in Connections |-> "none"] /\ toClient = [c \in Connections |-> << >>]
  BY DEF Init, GatewayInit
<1>2. ClientOpened \in ClientSessions /\ ClientOpened.seq = 0
  BY DEF ClientOpened, Opened, ClientSessions, Alive
<1>3. WireTypes
  BY <1>1, <1>2, NumberedOne DEF WireTypes, LinkStates
<1> QED BY <1>1, <1>2, <1>3 DEF SInv, Fresh, Balance, Connections

LEMMA NextCounts == IInv /\ SInv /\ [Next]_vars => SInv'
<1> SUFFICES ASSUME IInv, SInv, [Next]_vars PROVE SInv'
  OBVIOUS
<1>1. CASE Loop
  BY <1>1, TickCounts, AcceptCounts, ReadCountsSame, RestCounts, DispatchCounts, EndReadCounts,
     ReplayCounts, DrainCounts DEF Loop
<1>2. CASE Clients
  BY <1>2, ConnectCounts, ClientTicksCounts, ClientReadsCounts, SendsCount, LeaveCounts,
     RestCounts DEF Clients
<1>3. CASE Pass
  BY <1>3, PassCounts
<1>4. CASE UNCHANGED vars
  BY <1>4, RestCounts
<1> QED BY <1>1, <1>2, <1>3, <1>4 DEF Next

LEMMA CountsAgree == IInv /\ SInv => SequencesAgree
<1> SUFFICES ASSUME IInv, SInv, conn = 1, link[1] = "open", cli[1].state \in Alive
             PROVE  srv.seq - 1 = cli[1].seq + Numbered(toClient[1]) + Numbered(out)
  BY DEF SequencesAgree, Numbered, Alive
<1> DEFINE a == cli[1].seq
           b == Numbered(toClient[1])
           d == Numbered(out)
<1>1. srv.seq = 1 + a + b + d
  BY DEF SInv, Balance, Balanced
<1>2. a \in Nat /\ b \in Nat /\ d \in Nat
  BY NumberedType DEF SInv, WireTypes, Connections, ClientSessions
<1> HIDE DEF a, b, d
<1>3. srv.seq - 1 = a + b + d
  BY <1>1, <1>2
<1> QED BY <1>3 DEF a, b, d

\* The two ends of a connection count the same messages: what the server has
\* numbered (soupbin/session.hpp, send_sequenced()) is what the client has
\* counted and what waits in the server's queue or on the wire, however much of
\* the queue a write() of tools/exchange.cpp takes and however the client reads.
THEOREM ExchangeSequencesAgree == Spec => []SequencesAgree
<1>1. Init => IInv /\ SInv
  BY InitIsGood, InitCounts
<1>2. (IInv /\ SInv) /\ [Next]_vars => (IInv /\ SInv)'
  BY NextIsGood, NextCounts
<1>3. IInv /\ SInv => SequencesAgree
  BY CountsAgree
<1> QED BY <1>1, <1>2, <1>3, PTL DEF Spec

-----------------------------------------------------------------------------
(* Nobody is given up who is in time.                                      *)

\* A heartbeat is owed before a silence is fatal, and nobody is cut off at
\* once; the one client of a punctual scenario connects once and stays.
Timely ==
  /\ 0 < HeartbeatAfter /\ HeartbeatAfter < ClientDeadAfter /\ HeartbeatAfter < ServerDeadAfter
  /\ 0 < LoginTimeout /\ 0 < LoginResponseTimeout
  /\ S.punctual => S.connections <= 1 /\ S.leave = {}

\* Frames of a session; the answer to the login comes before all of them.
Chat(q) == \A i \in 1..Len(q) : q[i] \in {"S", "H"}
Welcome(q) == Len(q) > 0 /\ q[1] = "A" /\ \A i \in 2..Len(q) : q[i] \in {"S", "H"}
OnTheWay(state, heard, wire, queue) ==
  \/ state = "LoggedIn" /\ Chat(wire) /\ Chat(queue)
  \/ /\ state = "AwaitingLogin" /\ heard = 0
     /\ (Welcome(wire) /\ Chat(queue)) \/ (wire = << >> /\ Welcome(queue))

\* The four stages of the connection.
Apart ==
  /\ link[1] \in {"none", "waiting"} /\ cli[1] = ClientOpened /\ 1 \notin due /\ chunk = << >>
  /\ toServer[1] = IF link[1] = "waiting" THEN <<Frame("L")>> ELSE << >>

LoginFirst(q) == Len(q) > 0 /\ q[1].type = "L"
Asking ==
  /\ link[1] = "open" /\ cli[1] = ClientOpened /\ 1 \notin due
  /\ out = << >> /\ toClient[1] = << >> /\ srv.heard = 0 /\ srv.sent = 0
  /\ \/ /\ srv.state = "AwaitingLogin"
        /\ (phase = "dispatch" /\ LoginFirst(chunk)) \/ (chunk = << >> /\ LoginFirst(toServer[1]))
     \/ srv.state = "LoginReceived" /\ phase = "dispatch"

\* An end that has not ticked owes a heartbeat at most, and what one end has
\* not heard the other has not said, unless it is on its way.
Talk ==
  /\ link[1] = "open" /\ srv.state = "LoggedIn"
  /\ srv.sent <= HeartbeatAfter /\ (Server \notin due => srv.sent < HeartbeatAfter)
  /\ cli[1].sent <= HeartbeatAfter /\ (1 \notin due => cli[1].sent < HeartbeatAfter)
  /\ srv.heard <= HeartbeatAfter /\ cli[1].heard <= HeartbeatAfter
  /\ phase = "dispatch" \/ toServer[1] /= << >> \/ srv.heard <= cli[1].sent
  /\ out /= << >> \/ toClient[1] /= << >> \/ cli[1].heard <= srv.sent
  /\ OnTheWay(cli[1].state, cli[1].heard, toClient[1], out)

Over == link[1] = "open" /\ srv.state \in {"Ended", "ProtocolViolation"}

Prompt ==
  /\ peerGone = FALSE /\ link[2] = "none" /\ due \subseteq {Server, 1}
  /\ link[1] = "open" => conn = 1
  /\ phase = "dispatch" /\ ~IsTerminal(srv) => entered \notin TerminalStates
  /\ Apart \/ Asking \/ Talk \/ Over

\* With IInv and SInv, inductive.
PInv == Timely /\ S.punctual => Prompt

-----------------------------------------------------------------------------
(* Frames of a session.                                                    *)

LEMMA ChatConcat ==
  ASSUME NEW p \in Seq(ToClients), NEW q \in Seq(ToClients), Chat(q)
  PROVE  /\ Chat(p) => Chat(p \o q)
         /\ Welcome(p) => Welcome(p \o q)
<1> DEFINE m == Len(p)
           n == Len(q)
           r == p \o q
<1>1. m \in Nat /\ n \in Nat /\ Len(r) = m + n
  BY LenProperties, ConcatProperties
<1>2. \A i \in 1..(m + n) : r[i] = IF i <= m THEN p[i] ELSE q[i - m]
  BY ConcatProperties
<1>3. \A i \in 1..n : q[i] \in {"S", "H"}
  BY DEF Chat
<1> HIDE DEF m, n, r
<1>4. ASSUME NEW i \in 1..(m + n)
      PROVE  (i \in 1..m /\ r[i] = p[i]) \/ (i \notin 1..m /\ r[i] \in {"S", "H"})
  <2>1. CASE i \in 1..m
    BY <1>1, <1>2, <2>1
  <2>2. CASE i \notin 1..m
    <3>1. i - m \in 1..n /\ r[i] = q[i - m]
      BY <1>1, <1>2, <2>2
    <3> QED BY <1>3, <2>2, <3>1
  <2> QED BY <2>1, <2>2
<1>5. Chat(p) => Chat(r)
  BY <1>1, <1>4 DEF Chat, m
<1>6. Welcome(p) => Welcome(r)
  <2> SUFFICES ASSUME Welcome(p) PROVE Welcome(r)
    OBVIOUS
  <2>1. m > 0 /\ p[1] = "A" /\ \A i \in 2..m : p[i] \in {"S", "H"}
    BY DEF Welcome, m
  <2>2. m + n > 0 /\ r[1] = "A"
    BY <1>1, <1>4, <2>1
  <2>3. ASSUME NEW i \in 2..(m + n) PROVE r[i] \in {"S", "H"}
    <3>1. i \in 1..(m + n) /\ (i \in 1..m => i \in 2..m)
      BY <1>1
    <3> QED BY <1>4, <2>1, <3>1
  <2> QED BY <1>1, <2>2, <2>3 DEF Welcome
<1> QED BY <1>5, <1>6 DEF r

LEMMA ChatSplit ==
  ASSUME NEW q \in Seq(ToClients), NEW n \in 0..Len(q)
  PROVE  LET p == SubSeq(q, 1, n)
             r == SubSeq(q, n + 1, Len(q))
         IN  /\ p \in Seq(ToClients) /\ r \in Seq(ToClients)
             /\ Len(p) = n /\ Len(r) = Len(q) - n
             /\ Chat(q) => Chat(p) /\ Chat(r)
             /\ Welcome(q) => (n = 0 /\ p = << >> /\ r = q) \/ (n > 0 /\ Welcome(p) /\ Chat(r))
<1> DEFINE p == SubSeq(q, 1, n)
           r == SubSeq(q, n + 1, Len(q))
           l == Len(q)
<1>1. l \in Nat /\ n \in Nat /\ n <= l
  BY LenProperties
<1>2. p \in Seq(ToClients) /\ r \in Seq(ToClients)
  BY NumberedSplit
<1>3. Len(p) = n /\ (\A i \in 1..n : p[i] = q[i])
  BY <1>1
<1>4. Len(r) = l - n /\ (\A i \in 1..(l - n) : r[i] = q[n + i])
  BY <1>1
<1>5. n = 0 => p = << >> /\ r = q
  BY <1>1, SubSeqFull
<1> HIDE DEF p, r, l
<1>6. \A i \in 1..(l - n) : n + i \in 1..l /\ (n > 0 => n + i \in 2..l)
  BY <1>1
<1>7. Chat(q) => Chat(p) /\ Chat(r)
  BY <1>1, <1>3, <1>4, <1>6 DEF Chat, l
<1>8. Welcome(q) /\ n > 0 => Welcome(p) /\ Chat(r)
  <2> SUFFICES ASSUME Welcome(q), n > 0 PROVE Welcome(p) /\ Chat(r)
    OBVIOUS
  <2>1. q[1] = "A" /\ \A i \in 2..l : q[i] \in {"S", "H"}
    BY DEF Welcome, l
  <2>2. p[1] = "A" /\ \A i \in 2..n : p[i] \in {"S", "H"}
    BY <1>1, <1>3, <2>1
  <2>3. \A i \in 1..(l - n) : r[i] \in {"S", "H"}
    BY <1>4, <1>6, <2>1
  <2> QED BY <1>3, <1>4, <2>2, <2>3 DEF Welcome, Chat
<1> QED BY <1>1, <1>2, <1>3, <1>4, <1>5, <1>7, <1>8 DEF p, r, l

\* A client that reads the answer to its login and frames of its session is
\* in its session; what it hears changes neither of its clocks.
LEMMA ReadHears ==
  ASSUME NEW s \in ClientSessions, NEW q \in Seq(ToClients),
         \/ s.state = "LoggedIn" /\ Chat(q)
         \/ s.state = "AwaitingLogin" /\ (Welcome(q) \/ Len(q) = 0)
  PROVE  LET t == FoldLeft(ClientDispatch, s, q)
         IN  /\ t \in ClientSessions /\ t.sent = s.sent /\ t.heard = s.heard
             /\ t.state = IF Len(q) = 0 THEN s.state ELSE "LoggedIn"
<1> DEFINE n == Len(q)
<1>1. n \in Nat /\ DOMAIN q = 1..n
  BY LenProperties
<1>2. PICK run : IsRun(run, s, q, n)
  <2>1. n \in Nat /\ Spans(q, n)
    BY <1>1 DEF Spans
  <2> HIDE DEF n
  <2> QED BY <2>1, ReadIsRun
<1>3. /\ run[n] = FoldLeft(ClientDispatch, s, q) /\ run[0] = s
      /\ \A k \in 1..n : run[k] = ClientDispatch(run[k - 1], q[k])
  BY <1>2 DEF IsRun
<1> DEFINE Good(k) == /\ run[k] \in ClientSessions /\ run[k].sent = s.sent /\ run[k].heard = s.heard
                      /\ run[k].state = IF k = 0 THEN s.state ELSE "LoggedIn"
           B == {k \in 0..n : Good(k)}
<1>4. 0 \in B
  BY <1>1, <1>3
<1>5. ASSUME NEW k \in 0..(n - 1), k \in B PROVE k + 1 \in B
  <2> DEFINE u == run[k]
             v == run[k + 1]
             type == q[k + 1]
  <2>1. k + 1 \in 1..n /\ (k + 1) - 1 = k /\ k + 1 \in 0..n /\ k + 1 /= 0
    BY <1>1
  <2>2. v = ClientDispatch(u, type)
    BY <1>3, <2>1
  <2>3. /\ u \in ClientSessions /\ u.sent = s.sent /\ u.heard = s.heard
        /\ u.state = IF k = 0 THEN s.state ELSE "LoggedIn"
    BY <1>5
  <2>4. \/ u.state = "LoggedIn" /\ type \in {"S", "H"}
        \/ u.state = "AwaitingLogin" /\ type = "A"
    <3>1. CASE s.state = "LoggedIn" /\ Chat(q)
      BY <2>1, <2>3, <3>1 DEF Chat
    <3>2. CASE s.state = "AwaitingLogin" /\ Welcome(q)
      <4>1. CASE k = 0
        BY <2>3, <3>2, <4>1 DEF Welcome
      <4>2. CASE k /= 0
        <5>1. k + 1 \in 2..n
          BY <1>1, <4>2
        <5> QED BY <2>3, <3>2, <4>2, <5>1 DEF Welcome
      <4> QED BY <4>1, <4>2
    <3>3. CASE Len(q) = 0
      BY <2>1, <3>3
    <3> QED BY <3>1, <3>2, <3>3
  <2> HIDE DEF u, v, type
  <2>5. v \in ClientSessions
    <3>1. Counts(u, ClientDispatch(u, type), IF type = "S" THEN 1 ELSE 0)
      BY <2>3, ClientDispatchCounts
    <3> QED BY <2>2, <3>1 DEF Counts
  <2>6. v \in {u, [u EXCEPT !.state = "LoggedIn"], [u EXCEPT !.seq = @ + 1]} /\ v.state = "LoggedIn"
    BY <2>2, <2>3, <2>4 DEF ClientDispatch, ClientSessions
  <2>7. v.sent = s.sent /\ v.heard = s.heard /\ v.state = "LoggedIn"
    BY <2>3, <2>6 DEF ClientSessions
  <2>8. Good(k + 1)
    BY <2>1, <2>5, <2>7 DEF v
  <2> QED BY <2>1, <2>8
<1>6. B = 0..n
  <2>1. B \in SUBSET (0..n)
    OBVIOUS
  <2> HIDE DEF B, n
  <2> QED BY <1>1, <1>4, <1>5, <2>1, Climb
<1>7. Good(n)
  <2>1. n \in B
    BY <1>1, <1>6
  <2> QED BY <2>1
<1> QED BY <1>3, <1>7

-----------------------------------------------------------------------------
(* Each action keeps a punctual connection so.                             *)

Ready == IInv /\ SInv /\ Timely /\ S.punctual /\ Prompt

LEMMA ReadyFacts ==
  ASSUME Ready
  PROVE  /\ srv \in Sessions /\ cli \in [Connections -> ClientSessions] /\ cli[1] \in ClientSessions
         /\ toServer \in [Connections -> Seq(Frames)] /\ toServer[1] \in Seq(Frames)
         /\ toClient \in [Connections -> Seq(ToClients)] /\ toClient[1] \in Seq(ToClients)
         /\ out \in Seq(ToClients) /\ chunk \in Seq(Frames) /\ conn \in 0..2
         /\ link \in [Connections -> LinkStates] /\ 1 \in Connections /\ 2 \in Connections
         /\ HeartbeatAfter \in Nat /\ ClientDeadAfter \in Nat /\ ServerDeadAfter \in Nat
         /\ LoginTimeout \in Nat /\ LoginResponseTimeout \in Nat
         /\ srv.sent \in Nat /\ srv.heard \in Nat /\ cli[1].sent \in Nat /\ cli[1].heard \in Nat
<1>1. 1 \in Connections /\ 2 \in Connections
  BY DEF Connections
<1>2. srv \in Sessions /\ out \in Seq(ToClients) /\ chunk \in Seq(Frames) /\ conn \in 0..2
  BY DEF Ready, IInv, MarketOK, FramesOK, SInv, WireTypes
<1>3. /\ cli \in [Connections -> ClientSessions] /\ toClient \in [Connections -> Seq(ToClients)]
      /\ toServer \in [Connections -> Seq(Frames)] /\ link \in [Connections -> LinkStates]
  BY DEF Ready, IInv, FramesOK, SInv, WireTypes
<1>4. /\ HeartbeatAfter \in Nat /\ ClientDeadAfter \in Nat /\ ServerDeadAfter \in Nat
      /\ LoginTimeout \in Nat /\ LoginResponseTimeout \in Nat
  BY TimersAssumption
<1>5. cli[1] \in ClientSessions /\ toServer[1] \in Seq(Frames) /\ toClient[1] \in Seq(ToClients)
  BY <1>1, <1>3
<1> QED BY <1>1, <1>2, <1>3, <1>4, <1>5 DEF Sessions, ClientSessions

\* Which stage a connection is in.
LEMMA StageFacts ==
  ASSUME Ready
  PROVE  /\ Unmet => Apart /\ srv = NoSession /\ conn = 0 /\ phase /= "dispatch" /\ out = << >>
                     /\ toClient[1] = << >>
         /\ ~Unmet => link[1] = "open" /\ conn = 1 /\ (Asking \/ Talk \/ Over)
         /\ Asking => srv.state \in {"AwaitingLogin", "LoginReceived"}
         /\ link[1] /= "closed" /\ link[2] = "none" /\ peerGone = FALSE
<1>1. Prompt /\ Fresh
  BY DEF Ready, SInv
<1>2. Apart \/ Asking \/ Talk \/ Over
  BY <1>1 DEF Prompt
<1>3. Asking \/ Talk \/ Over => link[1] = "open"
  BY DEF Asking, Talk, Over
<1>4. Apart => Unmet
  BY DEF Apart, Unmet
<1>5. Unmet => link[1] /= "open" /\ link[1] /= "closed"
  BY DEF Unmet
<1>6. link[2] = "none" /\ peerGone = FALSE /\ (link[1] = "open" => conn = 1)
  BY <1>1 DEF Prompt
<1>7. Asking => srv.state \in {"AwaitingLogin", "LoginReceived"}
  BY DEF Asking
<1>8. Unmet => /\ srv = NoSession /\ conn = 0 /\ phase /= "dispatch" /\ out = << >>
               /\ toClient[1] = << >>
  BY <1>1 DEF Fresh
<1> QED BY <1>2, <1>3, <1>4, <1>5, <1>6, <1>7, <1>8

\* The server says nothing, or says it to a client that is logged in.
Spoke ==
  \/ srv' = srv /\ out' = out
  \/ /\ srv.state = "LoggedIn" /\ srv'.state = "LoggedIn" /\ srv'.heard = srv.heard /\ srv'.sent = 0
     /\ out' \in Seq(ToClients) /\ out' /= << >>
     /\ (Chat(out) => Chat(out')) /\ (Welcome(out) => Welcome(out'))

LEMMA TellsSpoke ==
  ASSUME srv \in Sessions, out \in Seq(ToClients), Tells
  PROVE  Spoke
<1>1. PICK n \in Nat : srv' = Speak(srv, n) /\ out' = out \o Spoken(srv, n)
  BY DEF Tells
<1> DEFINE q == Spoken(srv, n)
<1>2. CASE srv.state /= "LoggedIn"
  BY <1>1, <1>2 DEF Speak, Spoken, Spoke
<1>3. CASE srv.state = "LoggedIn" /\ n = 0
  <2>1. q = << >>
    BY <1>3 DEF Spoken
  <2>2. srv' = srv
    BY <1>1, <1>3 DEF Speak, Sequenced
  <2>3. out' = out
    BY <1>1, <2>1
  <2> QED BY <2>2, <2>3 DEF Spoke
<1>4. CASE srv.state = "LoggedIn" /\ n /= 0
  <2>1. q = [i \in 1..n |-> "S"]
    BY <1>4 DEF Spoken
  <2>2. q \in Seq(ToClients) /\ Len(q) = n /\ Chat(q)
    <3>1. q \in Seq(ToClients)
      BY <2>1, NumberedSpoken
    <3>2. Len(q) = n /\ \A i \in 1..n : q[i] = "S"
      BY <2>1, <3>1, LenProperties
    <3> QED BY <3>1, <3>2 DEF Chat
  <2>3. out' = out \o q
    BY <1>1
  <2> HIDE DEF q
  <2>4. out' \in Seq(ToClients) /\ Len(out') = Len(out) + n /\ Len(out) \in Nat
    BY <2>2, <2>3, ConcatProperties, LenProperties
  <2>5. out' /= << >>
    <3>1. Len(out') /= 0
      BY <1>4, <2>4
    <3> QED BY <3>1
  <2>6. (Chat(out) => Chat(out')) /\ (Welcome(out) => Welcome(out'))
    BY <2>2, <2>3, ChatConcat
  <2>7. srv' = Sent([srv EXCEPT !.seq = @ + n])
    BY <1>1, <1>4 DEF Speak, Sequenced
  <2>8. srv'.state = "LoggedIn" /\ srv'.heard = srv.heard /\ srv'.sent = 0
    BY <1>4, <2>7 DEF Sent, Sessions
  <2> QED BY <1>4, <2>4, <2>5, <2>6, <2>8 DEF Spoke
<1> QED BY <1>2, <1>3, <1>4

\* A step in which only the server speaks, if anyone does.
LEMMA SpokePrompt ==
  ASSUME Ready, Spoke, UNCHANGED <<conn, peerGone, due, entered, wireVars>>,
         phase' = phase \/ (phase /= "dispatch" /\ phase' /= "dispatch"),
         chunk' = chunk \/ srv.state \in {"LoggedIn"} \union TerminalStates
  PROVE  Prompt'
<1>1. /\ UNCHANGED <<cli, link, toServer, toClient>>
      /\ phase' = "dispatch" <=> phase = "dispatch"
  BY DEF wireVars
<1>2. Prompt
  BY DEF Ready
<1>3. srv'.state = srv.state
  BY DEF Spoke
<1>4. Apart => Apart'
  <2> SUFFICES ASSUME Apart PROVE Apart'
    OBVIOUS
  <2>1. srv = NoSession
    BY StageFacts DEF Apart, Unmet
  <2>2. chunk' = chunk
    BY <2>1 DEF NoSession, TerminalStates
  <2> QED BY <1>1, <2>2 DEF Apart
<1>5. Asking => Asking'
  <2> SUFFICES ASSUME Asking PROVE Asking'
    OBVIOUS
  <2>1. srv.state \in {"AwaitingLogin", "LoginReceived"}
    BY DEF Asking
  <2>2. srv' = srv /\ out' = out /\ chunk' = chunk
    BY <2>1 DEF Spoke, TerminalStates
  <2> QED BY <1>1, <2>2 DEF Asking
<1>6. Talk => Talk'
  <2> SUFFICES ASSUME Talk PROVE Talk'
    OBVIOUS
  <2>1. CASE srv' = srv /\ out' = out
    BY <1>1, <2>1 DEF Talk
  <2>2. CASE ~(srv' = srv /\ out' = out)
    <3>1. /\ srv'.state = "LoggedIn" /\ srv'.heard = srv.heard /\ srv'.sent = 0 /\ out' /= << >>
          /\ (Chat(out) => Chat(out')) /\ (Welcome(out) => Welcome(out'))
      BY <2>2 DEF Spoke
    <3>2. 0 < HeartbeatAfter /\ HeartbeatAfter \in Nat
      BY ReadyFacts DEF Ready, Timely
    <3>3. OnTheWay(cli'[1].state, cli'[1].heard, toClient'[1], out')
      BY <1>1, <3>1 DEF Talk, OnTheWay
    <3>4. srv'.sent <= HeartbeatAfter /\ srv'.sent < HeartbeatAfter
      BY <3>1, <3>2
    <3> QED BY <1>1, <3>1, <3>3, <3>4 DEF Talk
  <2> QED BY <2>1, <2>2
<1>7. Over => Over'
  BY <1>1, <1>3 DEF Over
<1>8. IsTerminal(srv') <=> IsTerminal(srv)
  BY <1>3 DEF IsTerminal
<1> QED BY <1>1, <1>2, <1>4, <1>5, <1>6, <1>7, <1>8 DEF Prompt

LEMMA TickPrompt ==
  ASSUME Ready, Tick
  PROVE  Prompt'
<1>1. /\ phase = "tick" /\ phase' = "poll" /\ due' = due \ {Server}
      /\ UNCHANGED <<conn, peerGone, chunk, entered, cli, link, toServer, toClient>>
  BY DEF Tick, wireVars
<1>2. Prompt /\ Timely
  BY DEF Ready
<1>3. 1 \notin due' <=> 1 \notin due
  BY <1>1 DEF Server
<1> DEFINE t == ServerTick(srv)
           u == ServerTimedOut(srv)
<1>4. \/ ~(Server \in due /\ srv /= NoSession) /\ srv' = srv /\ out' = out
      \/ Server \in due /\ srv' = t.session /\ out' = out \o t.frames
  BY DEF Tick
<1>5. Apart => Apart'
  BY <1>1, <1>3 DEF Apart
<1>6. Asking => Asking'
  <2> SUFFICES ASSUME Asking PROVE Asking'
    OBVIOUS
  <2>1. srv.state = "AwaitingLogin" /\ srv.heard = 0 /\ 0 < LoginTimeout /\ LoginTimeout \in Nat
    BY <1>1, <1>2, ReadyFacts DEF Asking, Timely
  <2>2. u = srv
    BY <2>1 DEF ServerTimedOut, Expired
  <2>3. t.session = srv /\ t.frames = << >>
    BY <2>1, <2>2 DEF ServerTick
  <2>4. srv' = srv /\ out' = out
    <3>1. out = << >>
      BY DEF Asking
    <3> QED BY <1>4, <2>3, <3>1
  <2> QED BY <1>1, <1>3, <2>4 DEF Asking
<1>7. Talk => Talk'
  <2> SUFFICES ASSUME Talk PROVE Talk'
    OBVIOUS
  <2>1. /\ srv \in Sessions /\ out \in Seq(ToClients) /\ HeartbeatAfter \in Nat /\ ClientDeadAfter \in Nat
        /\ srv.heard \in Nat /\ srv.sent \in Nat /\ 0 < HeartbeatAfter /\ HeartbeatAfter < ClientDeadAfter
    BY <1>2, ReadyFacts DEF Timely
  <2>2. srv.state = "LoggedIn" /\ srv.heard <= HeartbeatAfter
    BY DEF Talk
  <2>3. u = srv
    <3>1. ~(srv.heard >= ClientDeadAfter)
      BY <2>1, <2>2
    <3> QED BY <2>2, <3>1 DEF ServerTimedOut, Expired
  <2>4. CASE Server \in due /\ srv.sent >= HeartbeatAfter
    <3>1. t.session = Sent(srv) /\ t.frames = <<"H">>
      BY <2>2, <2>3, <2>4 DEF ServerTick
    <3>2. srv /= NoSession
      BY <2>2 DEF NoSession
    <3>3. srv' = Sent(srv) /\ out' = out \o <<"H">>
      BY <1>4, <2>4, <3>1, <3>2
    <3>4. srv'.state = "LoggedIn" /\ srv'.heard = srv.heard /\ srv'.sent = 0
      BY <2>1, <2>2, <3>3 DEF Sent, Sessions
    <3> DEFINE q == <<"H">>
    <3>5. q \in Seq(ToClients) /\ Len(q) = 1 /\ q[1] = "H"
      BY DEF ToClients
    <3>6. Chat(q)
      BY <3>5 DEF Chat
    <3>7. out' = out \o q
      BY <3>3
    <3> HIDE DEF q
    <3>8. (Chat(out) => Chat(out')) /\ (Welcome(out) => Welcome(out'))
      BY <2>1, <3>5, <3>6, <3>7, ChatConcat
    <3>9. out' /= << >>
      <4>1. Len(out') = Len(out) + 1 /\ Len(out) \in Nat
        BY <2>1, <3>5, <3>7, ConcatProperties, LenProperties
      <4> QED BY <4>1
    <3>10. OnTheWay(cli'[1].state, cli'[1].heard, toClient'[1], out')
      BY <1>1, <3>8 DEF Talk, OnTheWay
    <3>11. srv'.sent <= HeartbeatAfter /\ srv'.sent < HeartbeatAfter
      BY <2>1, <3>4
    <3> QED BY <1>1, <1>3, <3>4, <3>9, <3>10, <3>11 DEF Talk
  <2>5. CASE ~(Server \in due /\ srv.sent >= HeartbeatAfter)
    <3>1. srv' = srv /\ out' = out
      <4>1. CASE Server \in due
        <5>1. t.session = srv /\ t.frames = << >>
          BY <2>3, <2>5, <4>1 DEF ServerTick
        <5> QED BY <1>4, <2>1, <5>1
      <4> QED BY <1>4, <4>1
    <3>2. srv.sent < HeartbeatAfter
      BY <2>1, <2>5 DEF Talk
    <3> QED BY <1>1, <1>3, <3>1, <3>2 DEF Talk
  <2> QED BY <2>4, <2>5
<1>8. Over => Over'
  <2> SUFFICES ASSUME Over PROVE Over'
    OBVIOUS
  <2>1. srv.state \in {"Ended", "ProtocolViolation"}
    BY DEF Over
  <2>2. t.session = srv
    BY <2>1 DEF ServerTick, ServerTimedOut
  <2> QED BY <1>1, <1>4, <2>2 DEF Over
<1> QED BY <1>1, <1>2, <1>5, <1>6, <1>7, <1>8 DEF Prompt

LEMMA AcceptPrompt ==
  ASSUME Ready, Accept
  PROVE  Prompt'
<1> DEFINE c == Min(Waiting)
<1>1. c \in Waiting
  <2>1. Waiting /= {}
    BY DEF Accept
  <2> QED BY <2>1, FirstWaiting
<1>2. c = 1 /\ link[1] = "waiting"
  BY <1>1, StageFacts DEF Waiting, Connections
<1>3. /\ conn' = c /\ link' = [link EXCEPT ![c] = "open"] /\ srv' = ServerOpened
      /\ phase' = "replay" /\ UNCHANGED <<out, cli, toServer, toClient, chunk, due, peerGone, entered>>
  BY DEF Accept
<1> HIDE DEF c
<1>4. link'[1] = "open" /\ link'[2] = link[2] /\ conn' = 1
  BY <1>2, <1>3, ReadyFacts
<1>5. Apart /\ out = << >> /\ toClient[1] = << >>
  BY <1>2, StageFacts DEF Unmet
<1>6. srv'.state = "AwaitingLogin" /\ srv'.heard = 0 /\ srv'.sent = 0
  BY <1>3 DEF ServerOpened, Opened
<1>7. chunk = << >> /\ LoginFirst(toServer[1])
  <2>1. toServer[1] = <<Frame("L")>> /\ chunk = << >>
    BY <1>2, <1>5 DEF Apart
  <2> QED BY <2>1 DEF LoginFirst, Frame
<1>8. Asking'
  BY <1>3, <1>4, <1>5, <1>6, <1>7 DEF Asking, Apart
<1> QED BY <1>3, <1>4, <1>8 DEF Prompt, Ready

LEMMA ReadPrompt ==
  ASSUME Ready, Read
  PROVE  Prompt'
<1>1. ~Unmet /\ conn = 1 /\ (Asking \/ Talk \/ Over) /\ link[1] = "open"
  BY StageFacts DEF Read
<1> DEFINE q == toServer[1]
           l == Len(q)
<1>2. PICK n \in Pieces(q) :
        /\ chunk' = SubSeq(q, 1, n) /\ toServer' = [toServer EXCEPT ![1] = SubSeq(q, n + 1, l)]
  BY <1>1 DEF Read
<1>3. /\ phase = "read" /\ phase' = "dispatch" /\ entered' = srv.state
      /\ UNCHANGED <<srv, out, conn, peerGone, due, cli, link, toClient>>
  BY DEF Read, gwVars
<1>4. q \in Seq(Frames) /\ l \in Nat /\ n \in 0..l
  <2>1. q \in Seq(Frames) /\ l \in Nat
    BY ReadyFacts, LenProperties
  <2> QED BY <2>1 DEF Pieces
<1>5. toServer'[1] = SubSeq(q, n + 1, l)
  BY <1>2, ReadyFacts
<1> HIDE DEF q, l
<1>6. Asking => Asking'
  <2> SUFFICES ASSUME Asking PROVE Asking'
    OBVIOUS
  <2>1. srv.state = "AwaitingLogin" /\ LoginFirst(q)
    BY <1>3 DEF Asking, q
  <2>2. CASE n = 0
    <3>1. chunk' = << >> /\ toServer'[1] = q
      BY <1>2, <1>4, <1>5, <2>2, SubSeqFull DEF l
    <3> QED BY <1>3, <2>1, <3>1 DEF Asking
  <2>3. CASE n /= 0
    <3> DEFINE p == SubSeq(q, 1, n)
    <3>1. Len(p) = n /\ p[1] = q[1] /\ n > 0
      BY <1>4, <2>3 DEF l
    <3>2. LoginFirst(p)
      <4> HIDE DEF p
      <4> QED BY <2>1, <3>1 DEF LoginFirst
    <3> QED BY <1>2, <1>3, <2>1, <3>2 DEF Asking
  <2> QED BY <2>2, <2>3
<1>7. Talk => Talk'
  BY <1>3 DEF Talk
<1>8. Over => Over'
  BY <1>3 DEF Over
<1>9. ~IsTerminal(srv') => entered' \notin TerminalStates
  BY <1>3 DEF IsTerminal
<1> QED BY <1>1, <1>3, <1>6, <1>7, <1>8, <1>9 DEF Prompt, Ready

\* A frame ends the session, opens it, or leaves it as it is.
LEMMA DispatchMoves ==
  ASSUME srv \in Sessions, NEW type
  PROVE  LET s == ServerDispatch(srv, type)
         IN  /\ srv.state /= "AwaitingLogin" => s = srv \/ s.state \in {"Ended", "ProtocolViolation"}
             /\ srv.state = "AwaitingLogin" /\ type = "L" =>
                  s.state = "LoginReceived" /\ s.heard = srv.heard /\ s.sent = srv.sent
             /\ type = "U" /\ s.state = "LoggedIn" => srv.state = "LoggedIn"
<1> DEFINE s == ServerDispatch(srv, type)
<1>1. \/ s = srv
      \/ srv.state = "AwaitingLogin" /\ type = "L" /\ s = [srv EXCEPT !.state = "LoginReceived"]
      \/ s = [srv EXCEPT !.state = "Ended"]
      \/ s = [srv EXCEPT !.state = "ProtocolViolation"]
  BY DEF ServerDispatch
<1>2. srv.state = "AwaitingLogin" /\ type = "L" => s = [srv EXCEPT !.state = "LoginReceived"]
  BY DEF ServerDispatch
<1>3. /\ [srv EXCEPT !.state = "LoginReceived"].state = "LoginReceived"
      /\ [srv EXCEPT !.state = "LoginReceived"].heard = srv.heard
      /\ [srv EXCEPT !.state = "LoginReceived"].sent = srv.sent
      /\ [srv EXCEPT !.state = "Ended"].state = "Ended"
      /\ [srv EXCEPT !.state = "ProtocolViolation"].state = "ProtocolViolation"
  BY DEF Sessions
<1> HIDE DEF s
<1> QED BY <1>1, <1>2, <1>3 DEF s

LEMMA DispatchPrompt ==
  ASSUME Ready, Dispatch
  PROVE  Prompt'
<1> DEFINE f == Head(chunk)
           s == ServerDispatch(srv, f.type)
<1>1. /\ phase = "dispatch" /\ phase' = "dispatch" /\ chunk /= << >> /\ chunk' = Tail(chunk)
      /\ UNCHANGED <<conn, peerGone, due, entered, wireVars>>
      /\ IF f.type = "U" /\ s.state = "LoggedIn" THEN OnOuch(f) ELSE srv' = s /\ out' = out
  BY DEF Dispatch
<1>2. ~Unmet /\ link[1] = "open" /\ conn = 1 /\ (Asking \/ Talk \/ Over) /\ Prompt
  BY <1>1, StageFacts DEF Ready
<1>3. /\ srv \in Sessions /\ out \in Seq(ToClients) /\ chunk \in Seq(Frames) /\ f \in Frames
      /\ IsFiniteSet(book)
  BY <1>1, ReadyFacts DEF Ready, IInv, MarketOK, Core, BookOK
<1>4. UNCHANGED <<cli, link, toServer, toClient>>
  BY <1>1 DEF wireVars
<1>5. f = chunk[1]
  BY <1>1, <1>3
<1> HIDE DEF f
<1>6. /\ srv.state /= "AwaitingLogin" => s = srv \/ s.state \in {"Ended", "ProtocolViolation"}
      /\ srv.state = "AwaitingLogin" /\ f.type = "L" =>
           s.state = "LoginReceived" /\ s.heard = srv.heard /\ s.sent = srv.sent
      /\ f.type = "U" /\ s.state = "LoggedIn" => srv.state = "LoggedIn"
  BY <1>3, DispatchMoves
<1> HIDE DEF s
<1>7. CASE f.type = "U" /\ s.state = "LoggedIn"
  <2>1. f.ouch \in {"enter", "replace", "cancel"}
    <3>1. f \in Orders \union Cancels
      BY <1>3, <1>7, FrameFacts
    <3> QED BY <3>1 DEF Orders, Enters, Replaces, Cancels
  <2>2. Spoke
    <3>1. Tells \/ (srv' = srv /\ out' = out)
      BY <1>1, <1>3, <1>7, <2>1, OuchTells
    <3> QED BY <1>3, <3>1, TellsSpoke DEF Spoke
  <2> QED BY <1>1, <1>6, <1>7, <2>2, SpokePrompt
<1>8. CASE ~(f.type = "U" /\ s.state = "LoggedIn")
  <2>1. srv' = s /\ out' = out
    BY <1>1, <1>8
  <2>2. CASE s.state \in {"Ended", "ProtocolViolation"}
    <3>1. Over' /\ IsTerminal(srv')
      BY <1>2, <1>4, <2>1, <2>2 DEF Over, IsTerminal, TerminalStates
    <3> QED BY <1>1, <1>2, <1>4, <3>1 DEF Prompt
  <2>3. CASE s.state \notin {"Ended", "ProtocolViolation"} /\ srv.state /= "AwaitingLogin"
    <3>1. srv' = srv
      BY <1>6, <2>1, <2>3
    <3>2. ~Over /\ (Asking => Asking') /\ (Talk => Talk')
      BY <1>1, <1>4, <2>1, <2>3, <3>1, <1>6 DEF Asking, Talk, Over
    <3> QED BY <1>1, <1>2, <1>4, <3>1, <3>2 DEF Prompt, IsTerminal
  <2>4. CASE srv.state = "AwaitingLogin"
    <3>1. Asking /\ ~IsTerminal(srv)
      BY <1>2, <2>4 DEF Talk, Over, IsTerminal, TerminalStates
    <3>2. LoginFirst(chunk)
      BY <1>1, <2>4, <3>1 DEF Asking
    <3>3. s.state = "LoginReceived" /\ s.heard = srv.heard /\ s.sent = srv.sent
      BY <1>5, <1>6, <2>4, <3>2 DEF LoginFirst
    <3>4. Asking'
      BY <1>1, <1>4, <2>1, <3>1, <3>3 DEF Asking
    <3>5. entered' \notin TerminalStates
      BY <1>1, <1>2, <3>1 DEF Prompt
    <3> QED BY <1>1, <1>2, <1>4, <3>4, <3>5 DEF Prompt
  <2> QED BY <2>2, <2>3, <2>4
<1> QED BY <1>7, <1>8

LEMMA EndReadPrompt ==
  ASSUME Ready, EndRead
  PROVE  Prompt'
<1> DEFINE h == Heard(srv, entered)
           s == IF h.state = "LoginReceived" THEN LoginAccepted(h) ELSE h
<1>1. /\ phase = "dispatch" /\ phase' = "read" /\ chunk = << >> /\ srv' = s
      /\ out' = IF h.state = "LoginReceived" THEN Append(out, "A") ELSE out
      /\ UNCHANGED <<conn, peerGone, due, chunk, entered, wireVars>>
  BY DEF EndRead
<1>2. ~Unmet /\ link[1] = "open" /\ conn = 1 /\ (Asking \/ Talk \/ Over) /\ Prompt
  BY <1>1, StageFacts DEF Ready
<1>3. /\ srv \in Sessions /\ srv.heard \in Nat /\ srv.sent \in Nat
      /\ HeartbeatAfter \in Nat /\ 0 < HeartbeatAfter
  BY ReadyFacts DEF Ready, Timely
<1>4. UNCHANGED <<cli, link, toServer, toClient>>
  BY <1>1 DEF wireVars
<1>5. ~IsTerminal(srv) => h.state = srv.state /\ h.sent = srv.sent /\ h.heard = 0 /\ h \in Sessions
  <2>1. ~IsTerminal(srv) => h = [srv EXCEPT !.heard = 0]
    BY <1>1, <1>2 DEF Prompt, Heard
  <2> QED BY <1>3, <2>1 DEF Sessions
<1>6. IsTerminal(srv) => h = srv
  BY DEF Heard
<1>7. h \in Sessions => LoginAccepted(h).state = "LoggedIn" /\ LoginAccepted(h).sent = 0
                        /\ LoginAccepted(h).heard = h.heard
  <2> HIDE DEF h
  <2> QED BY DEF LoginAccepted, Sent, Sessions
<1> HIDE DEF h
<1>8. CASE Asking
  <2>1. ~IsTerminal(srv)
    BY <1>8 DEF Asking, IsTerminal, TerminalStates
  <2>2. CASE srv.state = "AwaitingLogin"
    <3>1. srv'.state = "AwaitingLogin" /\ srv'.heard = 0 /\ srv'.sent = 0 /\ out' = << >>
      BY <1>1, <1>5, <1>8, <2>1, <2>2 DEF Asking
    <3>2. LoginFirst(toServer[1])
      BY <1>1, <1>8, <2>2 DEF Asking, LoginFirst
    <3>3. Asking'
      BY <1>1, <1>4, <1>8, <3>1, <3>2 DEF Asking
    <3> QED BY <1>1, <1>2, <1>4, <3>3 DEF Prompt
  <2>3. CASE srv.state = "LoginReceived"
    <3>1. srv'.state = "LoggedIn" /\ srv'.heard = 0 /\ srv'.sent = 0 /\ out' = Append(out, "A")
      BY <1>1, <1>5, <1>7, <2>1, <2>3
    <3>2. out = << >> /\ toClient[1] = << >> /\ cli[1] = ClientOpened
      BY <1>8 DEF Asking
    <3>3. out' = <<"A">>
      BY <3>1, <3>2
    <3>4. Welcome(out') /\ out' /= << >>
      BY <3>3 DEF Welcome
    <3>5. cli'[1].state = "AwaitingLogin" /\ cli'[1].sent = 0 /\ cli'[1].heard = 0
      BY <1>4, <3>2 DEF ClientOpened, Opened
    <3>6. OnTheWay(cli'[1].state, cli'[1].heard, toClient'[1], out')
      BY <1>4, <3>2, <3>4, <3>5 DEF OnTheWay
    <3>7. Talk'
      BY <1>2, <1>3, <1>4, <3>1, <3>4, <3>5, <3>6 DEF Talk
    <3> QED BY <1>1, <1>2, <1>4, <3>7 DEF Prompt
  <2> QED BY <1>8, <2>2, <2>3 DEF Asking
<1>9. CASE Talk
  <2>1. ~IsTerminal(srv) /\ srv.state = "LoggedIn"
    BY <1>9 DEF Talk, IsTerminal, TerminalStates
  <2>2. srv'.state = "LoggedIn" /\ srv'.heard = 0 /\ srv'.sent = srv.sent /\ out' = out
    BY <1>1, <1>5, <2>1
  <2>3. cli[1].sent \in Nat
    BY ReadyFacts
  <2>4. Talk'
    BY <1>1, <1>3, <1>4, <1>9, <2>2, <2>3 DEF Talk
  <2> QED BY <1>1, <1>2, <1>4, <2>4 DEF Prompt
<1>10. CASE Over
  <2>1. IsTerminal(srv) /\ srv.state \in {"Ended", "ProtocolViolation"}
    BY <1>10 DEF Over, IsTerminal, TerminalStates
  <2>2. srv' = srv
    BY <1>1, <1>6, <2>1
  <2>3. Over'
    BY <1>4, <1>10, <2>2 DEF Over
  <2> QED BY <1>1, <1>2, <1>4, <2>3 DEF Prompt
<1> QED BY <1>2, <1>8, <1>9, <1>10

LEMMA ReplayPrompt ==
  ASSUME Ready, Replay
  PROVE  Prompt'
<1>1. /\ UNCHANGED <<conn, peerGone, chunk, due, entered, wireVars>> /\ phase = "replay"
      /\ phase' = "drain" /\ ReplayApplies
  BY DEF Replay
<1>2. srv \in Sessions /\ out \in Seq(ToClients) /\ IsFiniteSet(book)
  BY ReadyFacts DEF Ready, IInv, MarketOK, Core, BookOK
<1>3. Tells \/ (srv' = srv /\ out' = out)
  <2>1. CASE \E ref \in History : \E n \in 1..past[ref] : FeedExecutes(ref, n)
    BY <1>2, <2>1, ExecutesTells
  <2>2. CASE ~\E ref \in History : \E n \in 1..past[ref] : FeedExecutes(ref, n)
    BY <1>1, <2>2 DEF ReplayApplies, FeedAdds, FeedReduces, FeedDeletes, FeedReplaces
  <2> QED BY <2>1, <2>2
<1>4. Spoke
  BY <1>2, <1>3, TellsSpoke DEF Spoke
<1> QED BY <1>1, <1>4, SpokePrompt

\* A step that neither end notices.
LEMMA RestPrompt ==
  ASSUME Ready,
         NothingToAccept \/ ReadEof \/ ReadNothing \/ NothingDue \/ EndFeed \/ TripKill \/ UNCHANGED vars
  PROVE  Prompt'
<1>1. ~ReadEof
  <2> SUFFICES ASSUME ReadEof PROVE FALSE
    OBVIOUS
  <2>1. conn /= 0 /\ link[conn] = "closed"
    BY DEF ReadEof
  <2> QED BY <2>1, StageFacts
<1>2. /\ UNCHANGED <<srv, out, conn, peerGone, chunk, due, entered, wireVars>>
      /\ phase' = phase \/ (phase /= "dispatch" /\ phase' /= "dispatch")
  BY <1>1 DEF NothingToAccept, ReadNothing, NothingDue, EndFeed, TripKill, Trip, vars, gwVars,
              loopVars, wireVars
<1>3. Spoke
  BY <1>2 DEF Spoke
<1> QED BY <1>2, <1>3, SpokePrompt

LEMMA DrainPrompt ==
  ASSUME Ready, Drain
  PROVE  Prompt'
<1>1. Prompt /\ peerGone = FALSE /\ link[1] /= "closed" /\ conn \in {0, 1}
  <2>1. Prompt /\ peerGone = FALSE /\ link[1] /= "closed"
    BY StageFacts DEF Ready
  <2>2. Unmet => conn = 0
    BY StageFacts
  <2>3. ~Unmet => conn = 1
    BY StageFacts
  <2> QED BY <2>1, <2>2, <2>3
<1>2. UNCHANGED <<srv, chunk, entered, due, cli, toServer>> /\ phase = "drain"
  BY DEF Drain
<1>3. CASE conn = 0
  <2>1. UNCHANGED <<conn, peerGone, out, link, toClient>> /\ phase' \in {"tick", "stopped"}
    BY <1>1, <1>3 DEF Drain
  <2>2. Spoke
    BY <1>2, <2>1 DEF Spoke
  <2> QED BY <1>2, <2>1, <2>2, SpokePrompt DEF wireVars
<1>4. CASE conn = 1
  <2>1. ~Unmet /\ link[1] = "open" /\ (Asking \/ Talk \/ Over)
    <3>1. ~Unmet
      BY <1>4, StageFacts
    <3> QED BY <3>1, StageFacts
  <2> DEFINE broken == conn /= 0 /\ out /= << >> /\ link[conn] = "closed"
             wrote  == conn /= 0 /\ link[conn] /= "closed"
             gone   == peerGone \/ broken
             left   == IF gone THEN 0 ELSE conn
             queue(n) == CASE gone /\ conn /= 0 -> << >>
                           [] wrote -> Unwritten(n)
                           [] OTHER -> out
  <2>2. PICK n \in (IF S.shortWrites /\ wrote THEN 0..Len(out) ELSE {Len(out)}) :
          /\ toClient' = IF wrote /\ link[conn] = "open"
                           THEN [toClient EXCEPT ![conn] = @ \o SubSeq(out, 1, n)]
                           ELSE toClient
          /\ peerGone' = gone /\ conn' = left /\ out' = queue(n)
          /\ link' = IF gone /\ conn /= 0 THEN [link EXCEPT ![conn] = "closed"] ELSE link
          /\ phase' \in {"tick", "stopped"}
    BY DEF Drain
  <2>3. wrote /\ ~gone /\ left = 1
    BY <1>1, <1>4, <2>1
  <2>4. /\ toClient' = [toClient EXCEPT ![1] = @ \o SubSeq(out, 1, n)]
        /\ out' = Unwritten(n) /\ UNCHANGED <<conn, peerGone, link>> /\ phase' \in {"tick", "stopped"}
    BY <1>1, <1>4, <2>1, <2>2, <2>3
  <2>5. /\ out \in Seq(ToClients) /\ toClient[1] \in Seq(ToClients) /\ 1 \in Connections
        /\ toClient \in [Connections -> Seq(ToClients)] /\ Len(out) \in Nat
    BY ReadyFacts, LenProperties
  <2>6. n \in 0..Len(out)
    BY <2>5, <2>2
  <2> DEFINE p == SubSeq(out, 1, n)
             r == SubSeq(out, n + 1, Len(out))
             w == toClient[1]
  <2>7. toClient'[1] = w \o p /\ out' = r
    BY <2>4, <2>5 DEF Unwritten
  <2>8. /\ p \in Seq(ToClients) /\ r \in Seq(ToClients) /\ Len(p) = n /\ Len(r) = Len(out) - n
        /\ Chat(out) => Chat(p) /\ Chat(r)
        /\ Welcome(out) => (n = 0 /\ p = << >> /\ r = out) \/ (n > 0 /\ Welcome(p) /\ Chat(r))
    BY <2>5, <2>6, ChatSplit
  <2> HIDE DEF p, r
  <2>9. w \in Seq(ToClients) /\ Len(w) \in Nat
    BY <2>5, LenProperties
  <2> HIDE DEF w
  <2>10. w \o p \in Seq(ToClients) /\ Len(w \o p) = Len(w) + n
    BY <2>8, <2>9, ConcatProperties
  <2>11. w = << >> => w \o p = p
    BY <2>8
  <2>12. Len(out) = 0 /\ Len(w) = 0 <=> Len(r) = 0 /\ Len(w \o p) = 0
    BY <2>5, <2>6, <2>8, <2>9, <2>10
  <2>13. out = << >> /\ w = << >> <=> r = << >> /\ w \o p = << >>
    BY <2>5, <2>8, <2>9, <2>10, <2>12, EmptySeq
  <2>14. Asking => Asking'
    BY <1>2, <2>4, <2>7, <2>13 DEF Asking, w
  <2>15. Talk => Talk'
    <3> SUFFICES ASSUME Talk PROVE Talk'
      OBVIOUS
    <3>1. OnTheWay(cli[1].state, cli[1].heard, w, out)
      BY DEF Talk, w
    <3>2. OnTheWay(cli[1].state, cli[1].heard, w \o p, r)
      <4>1. CASE cli[1].state = "LoggedIn" /\ Chat(w) /\ Chat(out)
        <5>1. Chat(w \o p)
          BY <2>8, <2>9, <4>1, ChatConcat
        <5> QED BY <2>8, <4>1, <5>1 DEF OnTheWay
      <4>2. CASE cli[1].state = "AwaitingLogin" /\ cli[1].heard = 0 /\ Welcome(w) /\ Chat(out)
        <5>1. Welcome(w \o p)
          BY <2>8, <2>9, <4>2, ChatConcat
        <5> QED BY <2>8, <4>2, <5>1 DEF OnTheWay
      <4>3. CASE cli[1].state = "AwaitingLogin" /\ cli[1].heard = 0 /\ w = << >> /\ Welcome(out)
        BY <2>8, <2>11, <4>3 DEF OnTheWay
      <4> QED BY <3>1, <4>1, <4>2, <4>3 DEF OnTheWay
    <3>3. out' /= << >> \/ toClient'[1] /= << >> \/ cli'[1].heard <= srv'.sent
      BY <1>2, <2>7, <2>13 DEF Talk, w
    <3>4. phase /= "dispatch"
      BY <1>2
    <3>5. OnTheWay(cli'[1].state, cli'[1].heard, toClient'[1], out')
      BY <1>2, <2>7, <3>2
    <3> QED BY <1>2, <2>4, <3>3, <3>4, <3>5 DEF Talk
  <2>16. Over => Over'
    BY <1>2, <2>4 DEF Over
  <2> QED BY <1>1, <1>2, <2>1, <2>4, <2>14, <2>15, <2>16 DEF Prompt
<1> QED BY <1>1, <1>3, <1>4

LEMMA ConnectPrompt ==
  ASSUME Ready, Connect
  PROVE  Prompt'
<1>1. PICK c \in 1..S.connections :
        /\ link[c] = "none" /\ link' = [link EXCEPT ![c] = "waiting"]
        /\ toServer' = [toServer EXCEPT ![c] = @ \o <<Frame("L")>>]
  BY DEF Connect, Send
<1>2. /\ UNCHANGED <<gwVars, loopVars, due, cli, toClient>> /\ Prompt
      /\ UNCHANGED <<srv, out, phase, conn, peerGone, chunk, entered>>
  BY DEF Connect, gwVars, loopVars, Ready
<1>3. c = 1
  <2>1. S.connections <= 1 /\ S.connections \in 0..2
    <3>1. scenario \in DOMAIN Scenarios
      BY DEF Ready, IInv, FramesOK
    <3> QED BY <3>1, ScenariosAssumption DEF Ready, Timely, S
  <2> QED BY <2>1
<1>4. /\ link \in [Connections -> LinkStates] /\ toServer \in [Connections -> Seq(Frames)]
      /\ 1 \in Connections /\ 2 \in Connections
  BY ReadyFacts
<1>5. Apart
  <2>1. Unmet
    BY <1>1, <1>3 DEF Unmet
  <2> QED BY <2>1, StageFacts
<1>6. link'[1] = "waiting" /\ link'[2] = link[2]
  BY <1>1, <1>3, <1>4
<1>7. toServer'[1] = <<Frame("L")>>
  <2> DEFINE q == <<Frame("L")>>
  <2>1. toServer[1] = << >>
    BY <1>1, <1>3, <1>5 DEF Apart
  <2>2. toServer'[1] = << >> \o q
    BY <1>1, <1>3, <1>4, <2>1
  <2> QED BY <2>2
<1>8. Apart'
  BY <1>2, <1>5, <1>6, <1>7 DEF Apart
<1> QED BY <1>2, <1>6, <1>8 DEF Prompt

\* A client that is in time owes a heartbeat or nothing.
LEMMA InTimeTick ==
  ASSUME Ready, Talk
  PROVE  LET t == ClientTick(cli[1])
             s == cli[1]
         IN  \/ s.sent >= HeartbeatAfter /\ t.frames = <<"R">> /\ t.session = Sent(s)
             \/ s.sent < HeartbeatAfter /\ t.frames = << >> /\ t.session = s
<1> DEFINE s == cli[1]
           u == ClientTimedOut(s)
           t == ClientTick(s)
<1>1. /\ s.sent \in Nat /\ s.heard \in Nat /\ HeartbeatAfter \in Nat /\ ServerDeadAfter \in Nat
      /\ LoginResponseTimeout \in Nat /\ HeartbeatAfter < ServerDeadAfter /\ 0 < LoginResponseTimeout
  BY ReadyFacts DEF Ready, Timely
<1>2. s.heard <= HeartbeatAfter /\ (s.state = "LoggedIn" \/ (s.state = "AwaitingLogin" /\ s.heard = 0))
  BY DEF Talk, OnTheWay
<1> HIDE DEF s
<1>3. u = s
  <2>1. CASE s.state = "LoggedIn"
    <3>1. ~(s.heard >= ServerDeadAfter)
      BY <1>1, <1>2
    <3> QED BY <2>1, <3>1 DEF ClientTimedOut, Expired
  <2>2. CASE s.state = "AwaitingLogin" /\ s.heard = 0
    <3>1. ~(s.heard >= LoginResponseTimeout)
      BY <1>1, <2>2
    <3> QED BY <2>2, <3>1 DEF ClientTimedOut, Expired
  <2> QED BY <1>2, <2>1, <2>2
<1>4. ~IsTerminal(s)
  BY <1>2 DEF IsTerminal, TerminalStates
<1>5. t = [session |-> IF s.sent >= HeartbeatAfter THEN Sent(s) ELSE s,
           frames |-> IF s.sent >= HeartbeatAfter THEN <<"R">> ELSE << >>]
  BY <1>3, <1>4 DEF ClientTick
<1>6. CASE s.sent >= HeartbeatAfter
  BY <1>5, <1>6 DEF s
<1>7. CASE ~(s.sent >= HeartbeatAfter)
  <2>1. s.sent < HeartbeatAfter
    BY <1>1, <1>7
  <2> QED BY <1>5, <1>7, <2>1 DEF s
<1> QED BY <1>6, <1>7

\* A client that speaks, or has nothing to say, keeps the conversation going.
LEMMA ClientSpeaks ==
  ASSUME Ready, Talk, NEW q \in Seq(Frames), UNCHANGED <<srv, out, phase, link, toClient>>,
         due' \in {due, due \ {1}},
         toServer' = [toServer EXCEPT ![1] = @ \o q],
         \/ Len(q) > 0 /\ cli' = [cli EXCEPT ![1] = Sent(@)]
         \/ Len(q) = 0 /\ cli[1].sent < HeartbeatAfter /\ cli' = cli
  PROVE  Talk'
<1>1. /\ cli \in [Connections -> ClientSessions] /\ cli[1] \in ClientSessions /\ 1 \in Connections
      /\ toServer \in [Connections -> Seq(Frames)] /\ toServer[1] \in Seq(Frames)
      /\ HeartbeatAfter \in Nat /\ 0 < HeartbeatAfter /\ cli[1].sent \in Nat
  BY ReadyFacts DEF Ready, Timely
<1>2. Server \in due' <=> Server \in due
  BY DEF Server
<1> DEFINE w == toServer[1]
<1>3. toServer'[1] = w \o q /\ w \in Seq(Frames)
  BY <1>1
<1> HIDE DEF w
<1>4. Len(w \o q) = Len(w) + Len(q) /\ Len(w) \in Nat /\ Len(q) \in Nat
  BY <1>3, ConcatProperties, LenProperties
<1>5. CASE Len(q) > 0 /\ cli' = [cli EXCEPT ![1] = Sent(@)]
  <2>1. toServer'[1] /= << >>
    <3>1. Len(w \o q) /= 0
      BY <1>4, <1>5
    <3> QED BY <1>3, <3>1
  <2>2. cli'[1].sent = 0 /\ cli'[1].heard = cli[1].heard /\ cli'[1].state = cli[1].state
    BY <1>1, <1>5 DEF Sent, ClientSessions
  <2>3. cli'[1].sent <= HeartbeatAfter /\ cli'[1].sent < HeartbeatAfter
    BY <1>1, <2>2
  <2> QED BY <1>2, <2>1, <2>2, <2>3 DEF Talk
<1>6. CASE Len(q) = 0 /\ cli[1].sent < HeartbeatAfter /\ cli' = cli
  <2>1. Len(w \o q) = Len(w)
    BY <1>4, <1>6
  <2>2. w /= << >> => w \o q /= << >>
    <3>1. w /= << >> => Len(w) /= 0
      BY <1>3, EmptySeq
    <3>2. w \o q = << >> => Len(w \o q) = 0
      OBVIOUS
    <3> QED BY <2>1, <3>1, <3>2
  <2> QED BY <1>2, <1>3, <1>6, <2>2 DEF Talk, w
<1> QED BY <1>5, <1>6

LEMMA ClientTicksPrompt ==
  ASSUME Ready, ClientTicks
  PROVE  Prompt'
<1>1. PICK c \in due \ {Server} :
        /\ due' = due \ {c} /\ cli' = [cli EXCEPT ![c] = ClientTick(cli[c]).session]
        /\ Send(c, [i \in 1..Len(ClientTick(cli[c]).frames) |-> Frame(ClientTick(cli[c]).frames[i])])
  BY DEF ClientTicks
<1>2. UNCHANGED <<srv, out, phase, conn, peerGone, chunk, entered, link, toClient>> /\ Prompt
  BY DEF ClientTicks, gwVars, loopVars, Ready
<1>3. c = 1 /\ 1 \in due
  BY <1>2 DEF Prompt
<1>4. Talk \/ Over
  BY <1>2, <1>3 DEF Prompt, Apart, Asking
<1>5. ASSUME Talk PROVE Talk'
  <2> DEFINE t == ClientTick(cli[1])
             q == [i \in 1..Len(t.frames) |-> Frame(t.frames[i])]
  <2>1. toServer' = [toServer EXCEPT ![1] = @ \o q] /\ cli' = [cli EXCEPT ![1] = t.session]
    BY <1>1, <1>3 DEF Send
  <2>2. \/ cli[1].sent >= HeartbeatAfter /\ t.frames = <<"R">> /\ t.session = Sent(cli[1])
        \/ cli[1].sent < HeartbeatAfter /\ t.frames = << >> /\ t.session = cli[1]
    BY <1>5, InTimeTick
  <2>3. cli \in [Connections -> ClientSessions] /\ 1 \in Connections
    BY ReadyFacts
  <2>4. CASE t.frames = <<"R">> /\ t.session = Sent(cli[1])
    <3>1. Len(t.frames) = 1 /\ t.frames[1] = "R"
      BY <2>4
    <3>2. q = <<Frame("R")>>
      BY <3>1
    <3>3. q \in Seq(Frames) /\ Len(q) = 1
      <4>1. Frame("R") \in Frames
        BY PlainFrame
      <4> HIDE DEF q
      <4> QED BY <3>2, <4>1
    <3>4. cli' = [cli EXCEPT ![1] = Sent(@)]
      BY <2>1, <2>4
    <3>5. toServer' = [toServer EXCEPT ![1] = @ \o q]
      BY <2>1
    <3> HIDE DEF q
    <3>6. Len(q) > 0
      BY <3>3
    <3> QED BY <1>1, <1>2, <1>3, <1>5, <3>3, <3>4, <3>5, <3>6, ClientSpeaks
  <2>5. CASE cli[1].sent < HeartbeatAfter /\ t.frames = << >> /\ t.session = cli[1]
    <3>1. q = << >>
      BY <2>5
    <3>2. q \in Seq(Frames) /\ Len(q) = 0
      BY <3>1
    <3>3. cli' = cli
      BY <2>1, <2>3, <2>5
    <3>5. toServer' = [toServer EXCEPT ![1] = @ \o q]
      BY <2>1
    <3> HIDE DEF q
    <3> QED BY <1>1, <1>2, <1>3, <1>5, <2>5, <3>2, <3>3, <3>5, ClientSpeaks
  <2> QED BY <2>2, <2>4, <2>5
<1>6. Over => Over'
  BY <1>2 DEF Over
<1>7. Talk' \/ Over'
  BY <1>4, <1>5, <1>6
<1>8. due' \subseteq {Server, 1}
  BY <1>1, <1>2 DEF Prompt
<1> QED BY <1>2, <1>7, <1>8 DEF Prompt

LEMMA ClientReadsPrompt ==
  ASSUME Ready, ClientReads
  PROVE  Prompt'
<1>1. PICK c \in Connections :
        /\ Talking(c) /\ toClient[c] /= << >>
        /\ \E n \in Pieces(toClient[c]) :
             /\ toClient' = [toClient EXCEPT ![c] = SubSeq(@, n + 1, Len(@))]
             /\ cli' = [cli EXCEPT ![c] =
                          Heard(FoldLeft(ClientDispatch, @, SubSeq(toClient[c], 1, n)), @.state)]
  BY DEF ClientReads
<1>2. UNCHANGED <<srv, out, phase, conn, peerGone, chunk, entered, due, link, toServer>> /\ Prompt
  BY DEF ClientReads, gwVars, loopVars, Ready
<1>3. c = 1
  BY <1>1, StageFacts DEF Talking, Connections
<1>4. Talk \/ Over
  <2>1. ~Unmet
    BY <1>1, <1>3, StageFacts
  <2> QED BY <1>1, <1>3, <2>1, StageFacts DEF Asking
<1>5. ASSUME Talk PROVE Talk'
  <2> DEFINE q == toClient[1]
             s == cli[1]
  <2>1. /\ q \in Seq(ToClients) /\ s \in ClientSessions /\ toClient \in [Connections -> Seq(ToClients)]
        /\ cli \in [Connections -> ClientSessions] /\ 1 \in Connections
        /\ srv.sent \in Nat /\ HeartbeatAfter \in Nat
    BY ReadyFacts
  <2>2. PICK n \in Pieces(q) :
          /\ toClient' = [toClient EXCEPT ![1] = SubSeq(q, n + 1, Len(q))]
          /\ cli' = [cli EXCEPT ![1] = Heard(FoldLeft(ClientDispatch, s, SubSeq(q, 1, n)), s.state)]
    BY <1>1, <1>3
  <2>3. OnTheWay(s.state, s.heard, q, out) /\ q /= << >>
    BY <1>1, <1>3, <1>5 DEF Talk
  <2>4. s.sent <= HeartbeatAfter /\ (1 \notin due => s.sent < HeartbeatAfter)
    BY <1>5 DEF Talk
  <2>5. phase = "dispatch" \/ toServer[1] /= << >> \/ srv.heard <= s.sent
    BY <1>5 DEF Talk
  <2> HIDE DEF q, s
  <2> DEFINE p == SubSeq(q, 1, n)
             r == SubSeq(q, n + 1, Len(q))
             u == FoldLeft(ClientDispatch, s, p)
             t == Heard(u, s.state)
  <2>6. n \in 0..Len(q)
    <3>1. Len(q) \in Nat
      BY <2>1
    <3> QED BY <3>1 DEF Pieces
  <2>7. toClient'[1] = r /\ cli'[1] = t
    BY <2>1, <2>2
  <2>8. /\ p \in Seq(ToClients) /\ r \in Seq(ToClients) /\ Len(p) = n
        /\ Chat(q) => Chat(p) /\ Chat(r)
        /\ Welcome(q) => (n = 0 /\ p = << >> /\ r = q) \/ (n > 0 /\ Welcome(p) /\ Chat(r))
    BY <2>1, <2>6, ChatSplit
  <2> HIDE DEF p, r
  <2>9. \/ s.state = "LoggedIn" /\ Chat(p) /\ Chat(r) /\ Chat(out)
        \/ s.state = "AwaitingLogin" /\ Chat(out) /\ n = 0 /\ Welcome(r)
        \/ s.state = "AwaitingLogin" /\ Chat(out) /\ n > 0 /\ Welcome(p) /\ Chat(r)
    BY <2>3, <2>8 DEF OnTheWay
  <2>10. /\ u \in ClientSessions /\ u.sent = s.sent /\ u.heard = s.heard
         /\ u.state = IF n = 0 THEN s.state ELSE "LoggedIn"
    <3>1. \/ s.state = "LoggedIn" /\ Chat(p)
          \/ s.state = "AwaitingLogin" /\ (Welcome(p) \/ Len(p) = 0)
      BY <2>8, <2>9
    <3> QED BY <2>1, <2>8, <3>1, ReadHears
  <2> HIDE DEF u
  <2>11. t = [u EXCEPT !.heard = 0]
    <3>1. s.state \notin TerminalStates /\ ~IsTerminal(u)
      BY <2>9, <2>10 DEF IsTerminal, TerminalStates
    <3> QED BY <3>1 DEF Heard
  <2> HIDE DEF t
  <2>12. t.sent = s.sent /\ t.heard = 0 /\ t.state = u.state
    BY <2>10, <2>11 DEF ClientSessions
  <2>13. OnTheWay(t.state, t.heard, r, out)
    BY <2>6, <2>9, <2>10, <2>12 DEF OnTheWay
  <2>14. t.heard <= HeartbeatAfter /\ t.heard <= srv.sent
    BY <2>1, <2>12
  <2> QED BY <1>2, <1>5, <2>4, <2>5, <2>7, <2>12, <2>13, <2>14 DEF Talk
<1>6. Over => Over'
  BY <1>2 DEF Over
<1>7. Talk' \/ Over'
  BY <1>4, <1>5, <1>6
<1> QED BY <1>2, <1>7 DEF Prompt

LEMMA SendsPrompt ==
  ASSUME Ready, phase = "read", SendOrder \/ SendLast
  PROVE  Prompt'
<1>1. PICK c \in Connections, q \in Seq(Frames) :
        /\ link[c] = "open" /\ Len(q) > 0 /\ toServer' = [toServer EXCEPT ![c] = @ \o q]
        /\ cli' = [cli EXCEPT ![c] = Sent(@)]
        /\ cli[c].state = "LoggedIn" \/ \A i \in DOMAIN toServer[c] : toServer[c][i].type /= "L"
  <2>1. CASE SendOrder
    <3>1. PICK c \in Connections :
            /\ link[c] = "open" /\ cli[c].state = "LoggedIn" /\ cli' = [cli EXCEPT ![c] = Sent(@)]
            /\ \E f \in Frames : Send(c, <<f>>)
      BY <2>1, OrderFrames DEF Ready, IInv, FramesOK
    <3>2. PICK f \in Frames : Send(c, <<f>>)
      BY <3>1
    <3> DEFINE q == <<f>>
    <3>3. q \in Seq(Frames) /\ Len(q) > 0 /\ toServer' = [toServer EXCEPT ![c] = @ \o q]
      BY <3>2 DEF Send
    <3> HIDE DEF q
    <3> QED BY <3>1, <3>3
  <2>2. CASE SendLast
    <3>1. PICK c \in Connections, type \in S.last :
            /\ link[c] = "open" /\ \A i \in DOMAIN toServer[c] : toServer[c][i].type \notin {"O", "L"}
            /\ Send(c, <<Frame(type)>>) /\ cli' = [cli EXCEPT ![c] = Sent(@)]
      BY <2>2 DEF SendLast
    <3> DEFINE f == Frame(type)
               q == <<f>>
    <3>2. f \in Frames
      <4>1. scenario \in DOMAIN Scenarios
        BY DEF Ready, IInv, FramesOK
      <4> QED BY <4>1 DEF Frame, Frames, Plain, S
    <3>3. toServer' = [toServer EXCEPT ![c] = @ \o q]
      BY <3>1 DEF Send
    <3> HIDE DEF f
    <3>4. q \in Seq(Frames) /\ Len(q) > 0
      BY <3>2
    <3> HIDE DEF q
    <3> QED BY <3>1, <3>3, <3>4
  <2> QED BY <2>1, <2>2
<1>2. UNCHANGED <<srv, out, phase, conn, peerGone, chunk, entered, due, link, toClient>> /\ Prompt
  BY DEF SendOrder, SendLast, gwVars, loopVars, Ready
<1>3. c = 1 /\ ~Unmet /\ (Asking \/ Talk \/ Over)
  BY <1>1, StageFacts DEF Connections, Unmet
<1>4. ~Asking
  <2> SUFFICES ASSUME Asking PROVE FALSE
    OBVIOUS
  <2>1. LoginFirst(toServer[1]) /\ cli[1].state /= "LoggedIn"
    BY DEF Asking, ClientOpened, Opened
  <2>2. toServer[1] \in Seq(Frames)
    BY ReadyFacts
  <2> DEFINE w == toServer[1]
  <2>3. 1 \in DOMAIN w /\ w[1].type = "L"
    <3>1. Len(w) > 0 /\ w[1].type = "L"
      BY <2>1 DEF LoginFirst
    <3>2. Len(w) \in Nat /\ DOMAIN w = 1..Len(w)
      BY <2>2, LenProperties
    <3> HIDE DEF w
    <3> QED BY <3>1, <3>2
  <2> QED BY <1>1, <1>3, <2>1, <2>3
<1>5. Talk => Talk'
  BY <1>1, <1>2, <1>3, ClientSpeaks
<1>6. Over => Over'
  BY <1>2 DEF Over
<1>7. Talk' \/ Over'
  BY <1>3, <1>4, <1>5, <1>6
<1> QED BY <1>2, <1>7 DEF Prompt

\* A moment more, where a heartbeat is not owed yet, and no age is at its cap.
LEMMA OneOlder ==
  ASSUME NEW x \in Nat, x < HeartbeatAfter, HeartbeatAfter \in Nat
  PROVE  Min({x + 1, Oldest}) <= HeartbeatAfter
<1>1. Oldest \in Nat /\ HeartbeatAfter <= Oldest
  BY OldestFacts
<1>2. Min({x + 1, Oldest}) = IF x + 1 <= Oldest THEN x + 1 ELSE Oldest
  BY <1>1, MinOfTwo
<1>3. x + 1 <= HeartbeatAfter
  OBVIOUS
<1>4. x + 1 <= Oldest
  BY <1>1, <1>3
<1> QED BY <1>2, <1>3, <1>4

LEMMA OlderInTime ==
  ASSUME NEW s \in Sessions \union ClientSessions, s.sent < HeartbeatAfter, s.heard < HeartbeatAfter
  PROVE  /\ Older(s).sent <= HeartbeatAfter /\ Older(s).heard <= HeartbeatAfter
         /\ Older(s).state = s.state
<1> DEFINE a == Min({s.sent + 1, Oldest})
           b == Min({s.heard + 1, Oldest})
<1>1. s.sent \in Nat /\ s.heard \in Nat /\ HeartbeatAfter \in Nat
  BY TimersAssumption DEF Sessions, ClientSessions
<1>2. a <= HeartbeatAfter /\ b <= HeartbeatAfter
  BY <1>1, OneOlder
<1>3. Older(s) = [s EXCEPT !.sent = a, !.heard = b]
  BY DEF Older, Sessions, ClientSessions
<1> HIDE DEF a, b
<1> QED BY <1>2, <1>3 DEF Sessions, ClientSessions

LEMMA MinGrows ==
  ASSUME NEW a \in Nat, NEW b \in Nat, a <= b
  PROVE  Min({a + 1, Oldest}) <= Min({b + 1, Oldest})
<1>1. Oldest \in Nat
  BY OldestFacts
<1>2. /\ Min({a + 1, Oldest}) = IF a + 1 <= Oldest THEN a + 1 ELSE Oldest
      /\ Min({b + 1, Oldest}) = IF b + 1 <= Oldest THEN b + 1 ELSE Oldest
  BY <1>1, MinOfTwo
<1> QED BY <1>1, <1>2

LEMMA PassPrompt ==
  ASSUME Ready, Pass
  PROVE  Prompt'
<1>1. /\ UNCHANGED <<out, phase, conn, peerGone, chunk, entered, link, toServer, toClient>>
      /\ phase = "read" /\ Punctual
      /\ due' = {Server} \union {c \in Connections : Talking(c) /\ ~IsTerminal(cli[c])}
      /\ srv' = IF srv = NoSession THEN srv ELSE Older(srv)
      /\ cli' = [c \in Connections |-> IF Talking(c) THEN Older(cli[c]) ELSE cli[c]]
  BY DEF Pass, loopVars, Unwatched, Ready
<1>2. /\ Prompt /\ link[2] = "none" /\ 1 \in Connections /\ 2 \in Connections
      /\ srv \in Sessions /\ cli[1] \in ClientSessions
      /\ srv.sent \in Nat /\ srv.heard \in Nat /\ cli[1].sent \in Nat /\ cli[1].heard \in Nat
      /\ HeartbeatAfter \in Nat
  BY ReadyFacts, StageFacts DEF Ready
<1>3. /\ due = {} /\ due' \subseteq {Server, 1} /\ Server \in due'
      /\ 1 \in due' <=> Talking(1) /\ ~IsTerminal(cli[1])
  BY <1>1, <1>2 DEF Punctual, Talking, Connections, Server
<1>4. Talking(1) => /\ toServer[1] = << >> /\ toClient[1] = << >> /\ out = << >> /\ chunk = << >>
                    /\ cli'[1] = Older(cli[1])
  BY <1>1, <1>2 DEF Punctual
<1>5. ASSUME Apart PROVE Apart'
  <2>1. link[1] = "none"
    <3> SUFFICES ASSUME link[1] = "waiting" PROVE FALSE
      BY <1>5 DEF Apart
    <3>1. toServer[1] = << >> /\ toServer[1] = <<Frame("L")>>
      BY <1>4, <1>5 DEF Apart, Talking
    <3> QED BY <3>1
  <2>2. ~Talking(1)
    BY <2>1 DEF Talking
  <2>3. cli'[1] = cli[1]
    BY <1>1, <1>2, <2>2
  <2> QED BY <1>1, <1>3, <1>5, <2>2, <2>3 DEF Apart
<1>6. ~Asking
  <2> SUFFICES ASSUME Asking PROVE FALSE
    OBVIOUS
  <2>1. LoginFirst(toServer[1])
    BY <1>1 DEF Asking
  <2>2. toServer[1] = << >>
    BY <1>4 DEF Asking, Talking
  <2> QED BY <2>1, <2>2 DEF LoginFirst
<1>7. ASSUME Talk PROVE Talk'
  <2>1. Talking(1) /\ link[1] = "open"
    BY <1>7 DEF Talk, Talking
  <2>2. srv.sent < HeartbeatAfter /\ cli[1].sent < HeartbeatAfter
    BY <1>3, <1>7 DEF Talk
  <2>3. srv.heard <= cli[1].sent /\ cli[1].heard <= srv.sent
    BY <1>1, <1>4, <1>7, <2>1 DEF Talk
  <2>4. srv.heard < HeartbeatAfter /\ cli[1].heard < HeartbeatAfter
    BY <1>2, <2>2, <2>3
  <2>5. cli[1].state = "LoggedIn"
    BY <1>4, <1>7, <2>1 DEF Talk, OnTheWay, Welcome
  <2>6. srv' = Older(srv) /\ srv.state = "LoggedIn"
    BY <1>1, <1>7 DEF Talk, NoSession
  <2>7. srv'.sent <= HeartbeatAfter /\ srv'.heard <= HeartbeatAfter /\ srv'.state = "LoggedIn"
    BY <1>2, <2>2, <2>4, <2>6, OlderInTime
  <2>8. cli'[1].sent <= HeartbeatAfter /\ cli'[1].heard <= HeartbeatAfter /\ cli'[1].state = "LoggedIn"
    BY <1>2, <1>4, <2>1, <2>2, <2>4, <2>5, OlderInTime
  <2>9. 1 \in due'
    BY <1>3, <2>1, <2>5 DEF IsTerminal, TerminalStates
  <2>10. phase' = "dispatch" \/ toServer'[1] /= << >> \/ srv'.heard <= cli'[1].sent
    <3> DEFINE a == srv.heard
               b == cli[1].sent
    <3>1. srv'.heard = Min({a + 1, Oldest}) /\ cli'[1].sent = Min({b + 1, Oldest})
      BY <1>2, <1>4, <2>1, <2>6 DEF Older, Sessions, ClientSessions
    <3>2. a \in Nat /\ b \in Nat /\ a <= b
      BY <1>2, <2>3
    <3> HIDE DEF a, b
    <3> QED BY <3>1, <3>2, MinGrows
  <2>11. out' /= << >> \/ toClient'[1] /= << >> \/ cli'[1].heard <= srv'.sent
    <3> DEFINE a == cli[1].heard
               b == srv.sent
    <3>1. cli'[1].heard = Min({a + 1, Oldest}) /\ srv'.sent = Min({b + 1, Oldest})
      BY <1>2, <1>4, <2>1, <2>6 DEF Older, Sessions, ClientSessions
    <3>2. a \in Nat /\ b \in Nat /\ a <= b
      BY <1>2, <2>3
    <3> HIDE DEF a, b
    <3> QED BY <3>1, <3>2, MinGrows
  <2>12. OnTheWay(cli'[1].state, cli'[1].heard, toClient'[1], out')
    BY <1>1, <1>4, <2>1, <2>8 DEF OnTheWay, Chat
  <2> QED BY <1>1, <1>3, <2>1, <2>7, <2>8, <2>9, <2>10, <2>11, <2>12 DEF Talk
<1>8. ASSUME Over PROVE Over'
  <2>1. srv' = Older(srv)
    BY <1>1, <1>8 DEF Over, NoSession
  <2>2. srv'.state = srv.state
    BY <1>2, <2>1, OlderFacts
  <2> QED BY <1>1, <1>8, <2>2 DEF Over
<1>9. Apart' \/ Talk' \/ Over'
  BY <1>2, <1>5, <1>6, <1>7, <1>8 DEF Prompt
<1> QED BY <1>1, <1>2, <1>3, <1>9 DEF Prompt

-----------------------------------------------------------------------------
(* The client of a punctual scenario is never given up.                    *)

LEMMA InitPrompt == Init => PInv
<1> SUFFICES ASSUME Init PROVE Prompt
  BY DEF PInv
<1>1. /\ peerGone = FALSE /\ link = [c \in Connections |-> "none"] /\ due = {} /\ chunk = << >>
      /\ phase = "tick" /\ cli = [c \in Connections |-> ClientOpened]
      /\ toServer = [c \in Connections |-> << >>]
  BY DEF Init
<1>2. 1 \in Connections /\ 2 \in Connections
  BY DEF Connections
<1>3. link[1] = "none" /\ link[2] = "none" /\ cli[1] = ClientOpened /\ toServer[1] = << >>
  BY <1>1, <1>2
<1>4. Apart
  BY <1>1, <1>3 DEF Apart
<1> QED BY <1>1, <1>3, <1>4 DEF Prompt

LEMMA SameScenario == [Next]_vars => scenario' = scenario
<1> SUFFICES ASSUME [Next]_vars PROVE scenario' = scenario
  OBVIOUS
<1>1. Loop => scenario' = scenario
  BY DEF Loop, Tick, Accept, NothingToAccept, Read, ReadEof, ReadNothing, Dispatch, EndRead, Replay,
         NothingDue, EndFeed, Drain
<1>2. Clients => scenario' = scenario
  BY DEF Clients, Connect, ClientTicks, ClientReads, SendOrder, SendLast, Leave, TripKill, loopVars
<1>3. Pass => scenario' = scenario
  BY DEF Pass, loopVars
<1>4. UNCHANGED vars => scenario' = scenario
  BY DEF vars, loopVars
<1> QED BY <1>1, <1>2, <1>3, <1>4 DEF Next

LEMMA NextPrompt == IInv /\ SInv /\ PInv /\ [Next]_vars => PInv'
<1> SUFFICES ASSUME IInv, SInv, PInv, [Next]_vars, Timely', S'.punctual PROVE Prompt'
  BY DEF PInv
<1>1. S' = S
  BY SameScenario DEF S
<1>2. Timely /\ S.punctual
  BY <1>1 DEF Timely
<1>3. Ready
  BY <1>2 DEF PInv, Ready
<1>4. CASE Loop
  BY <1>3, <1>4, TickPrompt, AcceptPrompt, ReadPrompt, RestPrompt, DispatchPrompt, EndReadPrompt,
     ReplayPrompt, DrainPrompt DEF Loop
<1>5. CASE Clients
  <2>1. phase = "read"
    BY <1>5 DEF Clients, Unwatched
  <2>2. ~Leave
    BY <1>2 DEF Leave, Timely
  <2> QED BY <1>3, <1>5, <2>1, <2>2, ConnectPrompt, ClientTicksPrompt, ClientReadsPrompt, SendsPrompt,
             RestPrompt DEF Clients
<1>6. CASE Pass
  BY <1>3, <1>6, PassPrompt
<1>7. CASE UNCHANGED vars
  BY <1>3, <1>7, RestPrompt
<1> QED BY <1>4, <1>5, <1>6, <1>7 DEF Next

LEMMA PromptLives == SInv /\ PInv /\ Timely => NoFalseDeath
<1> SUFFICES ASSUME SInv, PInv, Timely, S.punctual
             PROVE  /\ srv.state \notin {"Dead", "LoginTimedOut"}
                    /\ cli[1].state \in {"Dead", "LoginTimedOut"} => IsTerminal(srv)
  BY DEF NoFalseDeath
<1>1. Apart \/ Asking \/ Talk \/ Over
  BY DEF PInv, Prompt
<1>2. CASE Apart
  <2>1. srv = NoSession
    BY <1>2 DEF SInv, Fresh, Unmet, Apart
  <2> QED BY <1>2, <2>1 DEF Apart, NoSession, ClientOpened, Opened
<1>3. CASE Asking
  BY <1>3 DEF Asking, ClientOpened, Opened
<1>4. CASE Talk
  BY <1>4 DEF Talk, OnTheWay
<1>5. CASE Over
  BY <1>5 DEF Over, IsTerminal, TerminalStates
<1> QED BY <1>1, <1>2, <1>3, <1>4, <1>5

\* A peer in time is never given up.  Where the thresholds of the two sessions
\* stand as tools/exchange.cpp and tools/strategy.cpp set them, a heartbeat owed
\* before a silence is fatal and nobody cut off at once, and the clock and the
\* wires are punctual and the one client stays, tick() of soupbin/session.hpp
\* never takes the client for dead or late with its login, nor the client the
\* exchange before their session is over, whatever is read in pieces, written
\* short, traded or logged out meanwhile.
THEOREM ExchangeNoFalseDeath == Spec => [](Timely => NoFalseDeath)
<1>1. Init => IInv /\ SInv /\ PInv
  BY InitIsGood, InitCounts, InitPrompt
<1>2. (IInv /\ SInv /\ PInv) /\ [Next]_vars => (IInv /\ SInv /\ PInv)'
  BY NextIsGood, NextCounts, NextPrompt
<1>3. IInv /\ SInv /\ PInv => (Timely => NoFalseDeath)
  BY PromptLives
<1> QED BY <1>1, <1>2, <1>3, PTL DEF Spec
=============================================================================
