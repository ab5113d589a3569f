------------------------------ MODULE Gateway ------------------------------
(***************************************************************************)
(* engine/gateway.hpp: OUCH order entry in front of a matcher, on the book *)
(* a replay of the historical feed shares (replay/split.hpp).  OUCH can    *)
(* only enter limit and market orders that show all they are, so one call  *)
(* of Matcher::submit() is one step here; module Matcher takes it apart.   *)
(*                                                                         *)
(* An order's reference is its number: 1..MaxRefs are the engine's, the    *)
(* numbers above are historical.  A token bound to 0 was never used.  What *)
(* the gateway says to its client is counted in told, token by token, and  *)
(* the book a subscriber of the published feed rebuilds is mirror.         *)
(***************************************************************************)
EXTENDS Integers, Sequences, SequencesExt, Functions, PriceTime, SoupSession

CONSTANTS
  MaxTokens,   \* bound: order tokens clients use
  MaxRefs,     \* bound: orders the engine is given
  MaxHistory,  \* bound: orders of the historical feed
  CollarTicks, \* Config::collar_ticks, 0 for none
  MaxPosition, \* Config::max_position, 0 for none
  MaxShares    \* Config::max_shares

ASSUME BoundsAssumption == {MaxTokens, MaxRefs, MaxHistory} \subseteq Nat

VARIABLES
  srv,     \* session_: the client's session as the server sees it
  gw,      \* tokens_, live_, position_, flattened_
  orders,  \* the matcher's records
  book,    \* the shared book
  kill,    \* the kill switch: live, or tripped
  past,    \* the feed's own account of its orders: shares left, -1 before the add
  out,     \* OutQueue: frames for the client's socket
  mirror,  \* the book a subscriber rebuilds from what is published
  told     \* what the client was told of each token

gwVars == <<srv, gw, orders, book, kill, past, out, mirror, told>>

Tokens == 1..MaxTokens
Refs == 1..MaxRefs
History == (MaxRefs + 1)..(MaxRefs + MaxHistory)
IsStrategyRef(ref) == ref \in Refs

NoOrder == [state |-> "None", side |-> "buy", filled |-> 0, resting |-> 0, cancelled |-> 0]
Silence == [executed |-> 0, cancelled |-> 0]
NewGateway ==
  [token |-> [t \in Tokens |-> 0], live |-> {}, position |-> 0, flattened |-> FALSE]

GatewayInit ==
  /\ gw = NewGateway
  /\ orders = [r \in Refs |-> NoOrder] /\ book = {} /\ kill = "live"
  /\ past = [r \in History |-> -1]
  /\ out = << >> /\ mirror = {} /\ told = [t \in Tokens |-> Silence]

Done(state) == state \in {"Filled", "Cancelled", "Rejected"}
Issued == {r \in Refs : orders[r].state /= "None"}
NextRef == Cardinality(Issued) + 1
Ours(g) == {g.token[t] : t \in Tokens} \ {0}
TokenOf(g, ref) == CHOOSE t \in Tokens : g.token[t] = ref
Signed(side, shares) == IF side = "buy" THEN shares ELSE -shares
\* The shares of a set of orders, or of fills.
Shares(S) == SumFunction([x \in S |-> x.shares])

-----------------------------------------------------------------------------
(* The matcher and the replay on the shared book.                          *)

Before(e, f) == Better(e.side, e.price, f.price) \/ (e.price = f.price /\ e.place < f.place)

\* What an order for this many shares takes from each order it crosses, best
\* and oldest first, as functions of the orders it reaches.
Reached(bk, order) ==
  {e \in bk : /\ e.side = Opposite(order.side)
              /\ order.market \/ e.price = order.price
                              \/ Better(order.side, order.price, e.price)}
Taken(bk, order, e) ==
  LET ahead == Shares({f \in Reached(bk, order) : Before(f, e)})
  IN  IF ahead >= order.shares THEN 0 ELSE Min({e.shares, order.shares - ahead})

Fill(taker, e, shares) ==
  [taker |-> taker, maker |-> e.ref, shares |-> shares, price |-> e.price]

\* A book from which each fill's shares are gone.
Executed(bk, fills) ==
  LET gone(e) == Shares({f \in fills : f.maker = e.ref})
  IN  {[e EXCEPT !.shares = e.shares - gone(e)] : e \in {f \in bk : f.shares > gone(f)}}

\* The makers' records after the fills.
Reduced1(m, shares) ==
  [m EXCEPT !.filled = @ + shares, !.resting = @ - shares,
            !.state = IF m.resting = shares THEN "Filled" ELSE "PartiallyFilled"]
MakersPaid(records, fills) ==
  [r \in Refs |->
     LET mine == {f \in fills : f.maker = r}
     IN  IF mine = {} THEN records[r]
         ELSE Reduced1(records[r], Shares(mine))]

\* match(): what trades when the order meets this book.
Fills(bk, ref, order) ==
  {fill \in {Fill(ref, e, Taken(bk, order, e)) : e \in Reached(bk, order)} : fill.shares > 0}

\* Matcher::submit() of a limit or a market order under reference ref, to an
\* engine with these records and this book, when these are its fills.
Submitted(records, bk, ref, order, fills) ==
  LET filled == Shares(fills)
      left   == order.shares - filled
      rests  == left > 0 /\ ~order.market
      state  == CASE order.market /\ filled = 0 -> "Rejected"
                  [] left = 0 -> "Filled"
                  [] rests -> IF filled > 0 THEN "PartiallyFilled" ELSE "Accepted"
                  [] OTHER -> "Cancelled"
      record == [state |-> state, side |-> order.side, filled |-> filled,
                 resting |-> IF rests THEN left ELSE 0,
                 cancelled |-> IF state = "Cancelled" THEN left ELSE 0]
      after  == Executed(bk, fills)
  IN  [state |-> state, fills |-> fills, resting |-> record.resting,
       orders |-> [MakersPaid(records, fills) EXCEPT ![ref] = record],
       book |-> IF rests THEN Added(after, ref, order.side, order.price, left) ELSE after]

\* Matcher::cancel().
Withdrawn(m) == [m EXCEPT !.state = "Cancelled", !.cancelled = @ + m.resting, !.resting = 0]

-----------------------------------------------------------------------------
(* What the gateway says and keeps.                                        *)

\* Messages reach the client only while it is logged in.
Speak(s, n) == IF s.state = "LoggedIn" THEN Sequenced(s, n) ELSE s
Spoken(s, n) == IF s.state = "LoggedIn" THEN [i \in 1..n |-> "S"] ELSE << >>
TellIf(s, new) == IF s.state = "LoggedIn" THEN new ELSE told

\* Mutant: a fill of a resting order is not told to its owner.
ToldOfTaken(t, g, fills) ==
  [tok \in Tokens |->
     LET mine == {f \in fills : g.token[tok] = f.taker /\ f.taker /= 0}
     IN  [t[tok] EXCEPT !.executed = @ + Shares(mine)]]

\* pump_fills(): Executed for each side of a fill that is this gateway's.
ToldOfFills(t, g, fills) ==
  [tok \in Tokens |->
     LET ref  == g.token[tok]
         mine == {f \in fills : ref /= 0 /\ ref \in {f.taker, f.maker}}
     IN  [t[tok] EXCEPT !.executed = @ + Shares(mine)]]

ExecutedMessages(g, fills) ==
  Cardinality({f \in fills : f.taker \in Ours(g)}) + Cardinality({f \in fills : f.maker \in Ours(g)})

\* pump_fills(): the position moves for each side that is ours, and an order
\* that is done leaves the live set.
Pumped(g, records, fills) ==
  LET delta(r, f) == IF r \in Ours(g) THEN Signed(records[r].side, f.shares) ELSE 0
  IN  [g EXCEPT
         !.position = @ + SumFunction([f \in fills |-> delta(f.taker, f) + delta(f.maker, f)]),
         !.live = @ \ {r \in @ : /\ Done(records[r].state)
                                 /\ \E f \in fills : r \in {f.taker, f.maker}}]

\* validate_new(), with the position the order would be added to.
Collared(order) ==
  LET opposite == {e.price : e \in {f \in book : f.side = Opposite(order.side)}}
  IN  /\ CollarTicks > 0 /\ opposite /= {}
      /\ IF order.side = "buy" THEN order.price > Min(opposite) + CollarTicks
                               ELSE order.price < Max(opposite) - CollarTicks
Acceptable(order, position) ==
  /\ order.stock
  /\ order.shares \in 1..MaxShares
  /\ order.market \/ (order.price > 0 /\ ~Collared(order))
  /\ MaxPosition > 0 =>
       position + Signed(order.side, order.shares) \in -MaxPosition..MaxPosition

-----------------------------------------------------------------------------
(* on_ouch().                                                              *)

\* Mutant: the client that crosses is reported on the feed as if it had not.
PublishedSilently(mir, ref, order, res) ==
  IF res.resting > 0 THEN Added(mir, ref, order.side, order.price, res.resting) ELSE mir

\* The executions of an order that crossed, then the add of what rests.
Published(mir, ref, order, res) ==
  LET after == Executed(mir, res.fills)
  IN  IF res.resting > 0 THEN Added(after, ref, order.side, order.price, res.resting)
      ELSE after

\* A refused message is answered and changes nothing else.
Reject ==
  /\ srv' = Speak(srv, 1) /\ out' = out \o Spoken(srv, 1)
  /\ UNCHANGED <<gw, orders, book, kill, past, mirror, told>>

\* The tail Enter and Replace share, from what the gateway, the feed and the
\* client hold by then: the token is bound, the answer sent after the earlier
\* messages of the call (it says what of a market order found no one), the
\* fills pumped, and the order that rests published.
Entered(g, mir, tld, tok, ref, order, res, earlier) ==
  LET bound == [g EXCEPT !.token[tok] = ref,
                         !.live = IF Done(res.state) THEN @ ELSE @ \union {ref}]
      said  == earlier + 1 + ExecutedMessages(bound, res.fills)
  IN  /\ gw' = Pumped(bound, res.orders, res.fills)
      /\ orders' = res.orders /\ book' = res.book
      /\ mirror' = Published(mir, ref, order, res)
      /\ told' = TellIf(srv, ToldOfFills([tld EXCEPT ![tok].cancelled = res.orders[ref].cancelled],
                                         bound, res.fills))
      /\ srv' = Speak(srv, said) /\ out' = out \o Spoken(srv, said)
      /\ UNCHANGED <<kill, past>>

OnEnter(tok, order) ==
  \E fills \in {Fills(book, NextRef, order)} :
  \E res \in {Submitted(orders, book, NextRef, order, fills)} :
      IF \/ gw.token[tok] /= 0
         \/ kill = "tripped"
         \/ ~Acceptable(order, gw.position)
        THEN Reject
        ELSE IF res.state = "Rejected"
          THEN /\ orders' = res.orders
               /\ srv' = Speak(srv, 1) /\ out' = out \o Spoken(srv, 1)
               /\ UNCHANGED <<gw, book, kill, past, mirror, told>>
          ELSE Entered(gw, mirror, told, tok, NextRef, order, res, 0)

\* on_replace(): every check on the replacement, then the cancel, then the
\* submission, which may still be refused: then neither token is live.
OnReplace(existing, fresh, order) ==
  LET old     == gw.token[existing]
      m       == orders[old]
      new     == [order EXCEPT !.side = m.side, !.stock = TRUE]
      netted  == gw.position - Signed(m.side, m.resting)
      records == [orders EXCEPT ![old] = Withdrawn(@)]
      without == [gw EXCEPT !.live = @ \ {old}]
      cut     == TellIf(srv, [told EXCEPT ![existing].cancelled = @ + m.resting])
  IN  IF \/ old = 0 \/ old \notin gw.live
         \/ gw.token[fresh] /= 0
         \/ kill = "tripped"
         \/ ~Acceptable(new, netted)
        THEN Reject
        ELSE \E left \in {Removed(book, old)} :
             \E fills \in {Fills(left, NextRef, new)} :
             \E res \in {Submitted(records, left, NextRef, new, fills)} :
          IF res.state = "Rejected"
          THEN /\ gw' = without /\ orders' = res.orders
               /\ book' = res.book /\ mirror' = Removed(mirror, old) /\ told' = cut
               /\ srv' = Speak(srv, 2) /\ out' = out \o Spoken(srv, 2)
               /\ UNCHANGED <<kill, past>>
          ELSE Entered(without, Removed(mirror, old), cut, fresh, NextRef, new, res, 1)

OnCancel(tok) ==
  LET ref == gw.token[tok]
  IN  IF ref = 0 \/ Done(orders[ref].state)
        THEN UNCHANGED gwVars
        ELSE /\ orders' = [orders EXCEPT ![ref] = Withdrawn(@)]
             /\ book' = Removed(book, ref) /\ mirror' = Removed(mirror, ref)
             /\ gw' = [gw EXCEPT !.live = @ \ {ref}]
             /\ told' = TellIf(srv, [told EXCEPT ![tok].cancelled = @ + orders[ref].resting])
             /\ srv' = Speak(srv, 1) /\ out' = out \o Spoken(srv, 1)
             /\ UNCHANGED <<kill, past>>

\* on_ouch(): one message of a client that is logged in.
OnOuch(f) ==
  CASE f.ouch = "enter" -> OnEnter(f.token, f.order)
    [] f.ouch = "replace" -> OnReplace(f.token, f.fresh, f.order)
    [] f.ouch = "cancel" -> OnCancel(f.token)

-----------------------------------------------------------------------------
(* The end of a session, and of trading.                                   *)

\* Mutant: only a peer that fell silent is noticed.
PolledOnSilence(s) ==
  /\ s.state \in {"Dead", "LoginTimedOut"} /\ ~gw.flattened

\* poll() flattens the first time it sees the session in a terminal state.
Polled(s) == IsTerminal(s) /\ ~gw.flattened

\* poll() with flatten(): every live order is cancelled at the matcher and
\* deleted on the feed; a client that is gone is told nothing.
PollWith(s) ==
  IF Polled(s)
    THEN LET armed == {r \in gw.live : ~Done(orders[r].state)}
         IN  /\ orders' = [r \in Refs |-> IF r \in armed THEN Withdrawn(orders[r]) ELSE orders[r]]
             /\ book' = {e \in book : e.ref \notin armed}
             /\ mirror' = {e \in mirror : e.ref \notin armed}
             /\ gw' = [gw EXCEPT !.live = {}, !.flattened = TRUE]
    ELSE UNCHANGED <<orders, book, mirror, gw>>

\* KillSwitch::trip(), by whoever watches the position: nothing un-trips it.
Trip ==
  /\ kill = "live" /\ kill' = "tripped"
  /\ UNCHANGED <<srv, gw, orders, book, past, out, mirror, told>>

-----------------------------------------------------------------------------
(* SplitReplayer::apply() and the pump_fills() that follows it.  Inputs    *)
(* are what the historical feed may say of its own orders; the shared book *)
(* may hold less of one than the feed says, because a client traded it.    *)

FeedAdds(ref, side, price, shares) ==
  /\ past[ref] = -1 /\ past' = [past EXCEPT ![ref] = shares]
  /\ book' = Added(book, ref, side, price, shares)
  /\ mirror' = Added(mirror, ref, side, price, shares)
  /\ UNCHANGED <<srv, gw, orders, kill, out, told>>

Less(bk, ref, shares) ==
  {e \in bk : e.ref /= ref} \union
  {[e EXCEPT !.shares = @ - shares] : e \in {f \in bk : f.ref = ref /\ f.shares > shares}}

\* 'X' and 'C'.
FeedReduces(ref, shares) ==
  /\ shares \in 1..past[ref] /\ past' = [past EXCEPT ![ref] = @ - shares]
  /\ book' = Less(book, ref, shares) /\ mirror' = Less(mirror, ref, shares)
  /\ UNCHANGED <<srv, gw, orders, kill, out, told>>

\* 'D': all the book holds of it, which may be more than the feed thinks.
FeedDeletes(ref) ==
  /\ past[ref] > 0 /\ past' = [past EXCEPT ![ref] = 0]
  /\ book' = Removed(book, ref) /\ mirror' = Removed(mirror, ref)
  /\ UNCHANGED <<srv, gw, orders, kill, out, told>>

\* 'U': a book that no longer holds the old order does not add the new one.
FeedReplaces(old, new, price, shares) ==
  LET moved(bk) == {Added(Removed(bk, old), new, e.side, price, shares) : e \in {f \in bk : f.ref = old}}
      after(bk) == IF moved(bk) = {} THEN bk ELSE CHOOSE b \in moved(bk) : TRUE
  IN  /\ past[old] > 0 /\ past[new] = -1
      /\ past' = [past EXCEPT ![old] = 0, ![new] = shares]
      /\ book' = after(book) /\ mirror' = after(mirror)
      /\ UNCHANGED <<srv, gw, orders, kill, out, told>>

\* The strategy orders ahead of the named one at its price.
InFront(o) ==
  {e \in book : e.side = o.side /\ e.price = o.price /\ e.place < o.place /\ IsStrategyRef(e.ref)}

\* 'E' replayed as an aggressor: it takes the strategy orders in front of the
\* order the feed names, each through apply_external_fill() and each published
\* as an execution of its own, and what is left from the named order.
FeedExecutes(ref, shares) ==
  /\ shares \in 1..past[ref] /\ past' = [past EXCEPT ![ref] = @ - shares]
  /\ IF ~\E o \in book : o.ref = ref
       THEN UNCHANGED <<srv, gw, orders, book, kill, out, mirror, told>>
       ELSE LET o      == CHOOSE e \in book : e.ref = ref
                before(e) == Shares({f \in InFront(o) : f.place < e.place})
                take(e) == IF before(e) >= shares THEN 0 ELSE Min({e.shares, shares - before(e)})
                fills  == {Fill(0, e, take(e)) : e \in {f \in InFront(o) : take(f) > 0}}
                left   == shares - Shares(fills)
                prints == fills \union (IF left > 0 THEN {Fill(0, o, left)} ELSE {})
                said   == ExecutedMessages(gw, fills)
            IN  /\ orders' = MakersPaid(orders, fills)
                /\ book' = Executed(book, prints) /\ mirror' = Executed(mirror, prints)
                /\ gw' = Pumped(gw, orders', fills)
                /\ told' = TellIf(srv, ToldOfFills(told, gw, fills))
                /\ srv' = Speak(srv, said) /\ out' = out \o Spoken(srv, said)
                /\ UNCHANGED kill
=============================================================================
