--------------------------- MODULE StrategyProcess ---------------------------
(***************************************************************************)
(* tools/strategy.cpp: a process that quotes over TCP and learns of its    *)
(* fills from the published feed alone, over UDP.  Nothing orders the two: *)
(* the Accepted that says which reference is its own may come after the    *)
(* 'A' and the 'E's that name it.  One action is one turn of the event     *)
(* loop, which reads as much of either stream as has arrived; what the     *)
(* exchange does and what is on the wires in between are the environment.  *)
(*                                                                         *)
(* References are numbers: those up to HistoricalRefs come from the tape,  *)
(* the rest are the strategy partition.                                    *)
(* The book is the part of book::BookSet the process asks: which orders    *)
(* rest under which locate (Book has the rest of it).                      *)
(***************************************************************************)
EXTENDS SoupSession, SequencesExt, Functions, Integers, TLC

CONSTANTS
  Scenarios,       \* what differs between runs of the process: see scenario
  HistoricalRefs,  \* how many references they use
  OurLocate,       \* the locate under which the feed carries the symbol it trades
  QuoteEvery, TickSize, OffsetTicks,
  Grace,           \* the half second it waits after the end of the feed
  LifeTime         \* its 180 seconds

\* What the exchange publishes of the tape, and the end of its session.
Historical == 1..HistoricalRefs
HistoricalMessages ==
  [type : {"R"}, locate : Nat, ref : {0}, shares : {0}]
    \cup [type : {"A"}, ref : Historical, locate : Nat, side : {"buy", "sell"}, price : Nat,
          shares : Nat \ {0}]
    \cup [type : {"E", "D"}, ref : Historical, shares : Nat] \cup [type : {"end"}]

\* A tape adds an order once, and the price of a quote is at least a tick
\* under the best offer.
ASSUME StrategyAssumption ==
  /\ HistoricalRefs \in Nat /\ OurLocate \in Nat
  /\ TickSize \in Nat \ {0} /\ OffsetTicks \in Nat
  /\ \A s \in Scenarios :
       /\ s.tape \in Seq(HistoricalMessages) /\ s.ackDelay \in Nat
       /\ s.maxOrders \in Nat /\ s.quoteShares \in Nat
       /\ \A i, j \in DOMAIN s.tape :
            s.tape[i].type = "A" /\ s.tape[j].type = "A" /\ s.tape[i].ref = s.tape[j].ref => i = j

VARIABLES
  scenario,  \* tape: the historical messages the exchange publishes, in order;
             \* ackDelay, maxOrders, quoteShares: the options of those names;
             \* maxFaults: how many datagrams are lost, servers gone silent and
             \* writes failed, in all
  belief,    \* struct Belief
  client,    \* the ClientSession
  late,      \* late_acks: the due time and reference of held Accepteds
  now,       \* the wall clock
  ordersSent, lastQuoteAt, endedAt, exchangeGone,
  phase,     \* "running" or "reported"
  ended,     \* seq.ended()
  held,      \* what the sequencer buffers behind a hole
  orders,    \* bytes written, on their way to the exchange
  replies,   \* bytes on their way back
  feed,      \* datagrams on their way
  tape,      \* historical messages to come
  makers,    \* the exchange's side: what is left of each of our orders that rest
  faults

beliefVars == <<belief, late, ended, held>>
quoteVars == <<ordersSent, lastQuoteAt, endedAt, exchangeGone, phase>>
processVars == <<beliefVars, quoteVars, client, orders>>
exchangeVars == <<tape, makers>>
vars == <<processVars, scenario, now, replies, feed, faults, exchangeVars>>

OwnRefs == (HistoricalRefs + 1)..(HistoricalRefs + scenario.maxOrders)
IsStrategyRef(ref) == ref > HistoricalRefs

NotYet == -1
NotParked == [sawAdd |-> FALSE, execs |-> << >>]

NewBelief ==
  [refs |-> {}, parked |-> [r \in OwnRefs |-> NotParked], book |-> [r \in {} |-> 0],
   applied |-> 0, locate |-> 0, ownAdds |-> 0, fills |-> 0, inBook |-> 0, position |-> 0,
   seen |-> << >>]  \* seen: what reached on_message(), for the properties

Init ==
  /\ scenario \in Scenarios
  /\ belief = NewBelief /\ client = ClientOpened /\ late = << >> /\ now = 0
  /\ ordersSent = 0 /\ lastQuoteAt = 0 /\ endedAt = NotYet /\ exchangeGone = FALSE
  /\ phase = "running"
  /\ ended = FALSE /\ held = << >>
  /\ orders = <<[type |-> "L"]>> /\ replies = << >> /\ feed = << >>
  /\ tape = scenario.tape /\ makers = [r \in {} |-> 0] /\ faults = 0

-----------------------------------------------------------------------------
(* What it believes.                                                       *)

Signed(side, shares) == IF side = "buy" THEN shares ELSE -shares

\* One execution of an order that is known to be ours.
FillCounted(b, exec) ==
  [b EXCEPT !.fills = @ + exec.shares,
            !.inBook = IF exec.found THEN @ + 1 ELSE @,
            !.position = IF exec.found THEN @ + Signed(exec.side, exec.shares) ELSE @]

\* Mutant: the executions the feed ran ahead with are forgotten.
RetiredAdds(b, ref) ==
  [b EXCEPT !.ownAdds = IF b.parked[ref].sawAdd THEN @ + 1 ELSE @, !.parked[ref] = NotParked]

\* Belief::retire(): the Accepted for ref has landed.
Retired(b, ref) ==
  LET p == b.parked[ref]
  IN  [FoldLeft(FillCounted, b, p.execs)
         EXCEPT !.ownAdds = IF p.sawAdd THEN @ + 1 ELSE @, !.parked[ref] = NotParked]

\* A reference is ours from here on.
Bound(b, ref) == Retired([b EXCEPT !.refs = @ \cup {ref}], ref)

\* Mutant: the first directory entry or add of any symbol.
LocatedByAny(b, msg) ==
  [b EXCEPT !.locate = IF @ = 0 /\ msg.type \in {"R", "A"} THEN msg.locate ELSE @]

\* The locate is learned from the first message that names our symbol.
Located(b, msg) ==
  [b EXCEPT !.locate = IF /\ @ = 0 /\ msg.type \in {"R", "A"}
                          /\ msg.locate = OurLocate THEN msg.locate ELSE @]

\* peek(locate)->find(ref).
Holds(b, ref) == ref \in DOMAIN b.book /\ b.book[ref].locate = b.locate

\* The fill detector: it looks in the book as it is before this message.
Detected(b, msg) ==
  LET found == Holds(b, msg.ref)
      exec  == [shares |-> msg.shares, found |-> found,
                side |-> IF found THEN b.book[msg.ref].side ELSE "none"]
  IN  CASE msg.type = "E" /\ msg.ref \in b.refs -> FillCounted(b, exec)
        [] msg.type = "E" /\ msg.ref \notin b.refs /\ IsStrategyRef(msg.ref) ->
             [b EXCEPT !.parked[msg.ref].execs = Append(@, exec)]
        [] msg.type = "A" /\ msg.ref \in b.refs -> [b EXCEPT !.ownAdds = @ + 1]
        [] msg.type = "A" /\ msg.ref \notin b.refs /\ IsStrategyRef(msg.ref) ->
             [b EXCEPT !.parked[msg.ref].sawAdd = TRUE]
        [] OTHER -> b

With(f, k, v) == [x \in DOMAIN f \cup {k} |-> IF x = k THEN v ELSE f[x]]

\* book::apply(): a directory entry does not count as a message applied.
EntryOf(msg) ==
  [locate |-> msg.locate, side |-> msg.side, price |-> msg.price, shares |-> msg.shares]
Cuts(book, msg) == msg.type = "E" /\ msg.ref \in DOMAIN book /\ book[msg.ref].shares > msg.shares
BookApplied(book, msg) ==
  CASE msg.type = "A" -> With(book, msg.ref, EntryOf(msg))
    [] Cuts(book, msg) -> [book EXCEPT ![msg.ref].shares = @ - msg.shares]
    [] OTHER -> [r \in DOMAIN book \ {msg.ref} |-> book[r]]

Applied(b, msg) ==
  IF msg.type = "R" THEN b
  ELSE [b EXCEPT !.applied = @ + 1, !.book = BookApplied(@, msg)]

\* Mutant: the book first, then the question whether the order was in it.
AppliedThenDetected(b, msg) ==
  LET told == [b EXCEPT !.seen = Append(@, msg)]
  IN  Detected(Applied(Located(told, msg), msg), msg)

OnMessage(b, msg) ==
  LET told == [b EXCEPT !.seen = Append(@, msg)]
  IN  Applied(Detected(Located(told, msg), msg), msg)

\* on_message() is called for each message of what the sequencer hands on.
IsMessage(msg) == msg.type \notin {"lost", "end"}
Heed(b, msg) == IF IsMessage(msg) THEN OnMessage(b, msg) ELSE b
Heeded(b, handed) == FoldLeft(Heed, b, handed)

-----------------------------------------------------------------------------
(* The streams it reads.                                                   *)

\* One reply: an Accepted is held, or binds its reference; the rest are only
\* counted.  c carries the session, the belief and the held Accepteds.
Replied(c, frame) ==
  LET s == ClientDispatch(c.session, frame.type)
  IN  IF frame.type = "S" /\ s.state = "LoggedIn" /\ frame.ouch = "accepted"
        THEN IF scenario.ackDelay /= 0
               THEN [c EXCEPT !.session = s,
                              !.late = Append(@, [due |-> now + scenario.ackDelay, ref |-> frame.ref])]
               ELSE [c EXCEPT !.session = s, !.belief = Bound(@, frame.ref)]
        ELSE [c EXCEPT !.session = s]

\* The Accepteds that are due are applied in the order they came, up to the
\* first that is not.
Due(queue) ==
  SubSeq(queue, 1, Cardinality({i \in DOMAIN queue : \A j \in 1..i : queue[j].due <= now}))
AckBound(b, ack) == Bound(b, ack.ref)
BoundAll(b, acks) == FoldLeft(AckBound, b, acks)

\* What the sequencer may hand on of what has arrived: everything before the
\* first hole, or, once it declares the hole a gap, what is behind it too.
\* FeedContract is its promise, Sequencer its code.
BeforeHole(msgs) ==
  LET holes == {i \in DOMAIN msgs : msgs[i].type = "lost"}
  IN  IF holes = {} THEN msgs ELSE SubSeq(msgs, 1, Min(holes) - 1)

-----------------------------------------------------------------------------
(* The quote.                                                              *)

Prices(b, side) ==
  {b.book[r].price : r \in {q \in DOMAIN b.book : b.book[q].locate = b.locate
                                                  /\ b.book[q].side = side}}

\* Behind the best bid, which is capped a tick under the best offer.
QuotePrice(b) ==
  LET bids == Prices(b, "buy")
      asks == Prices(b, "sell")
      base == CASE bids = {} -> 0
                [] bids /= {} /\ asks /= {} /\ Min(asks) - TickSize < Max(bids) -> Min(asks) - TickSize
                [] OTHER -> Max(bids)
  IN  IF base > 0 THEN base - OffsetTicks * TickSize ELSE 0

WantsToQuote(b, session) ==
  /\ session.state = "LoggedIn" /\ ordersSent < scenario.maxOrders
  /\ b.locate /= 0 /\ b.applied - lastQuoteAt >= QuoteEvery
  /\ QuotePrice(b) > 0

-----------------------------------------------------------------------------
(* The loop.                                                               *)

\* Mutant: what is still held at the end is left unapplied.
HeldLeft(b) == b

\* After the loop: the held Accepteds are applied, late or not.
HeldDrained(b) == BoundAll(b, late')

\* One turn: the deadline test, the Accepteds that are due, the replies and
\* then the datagrams that have arrived, a quote, the write, the goodbye once
\* the feed has ended, and the tests that leave the loop.  silent: the server
\* has said nothing for as long as the client waits; gone: the write fails.
Turn(nReplies, nFeed, silent, gone) ==
  /\ phase = "running"
  /\ faults' = faults + (IF silent THEN 1 ELSE 0) + (IF gone THEN 1 ELSE 0) /\ faults' <= scenario.maxFaults
  /\ LET ticked  == ClientTimedOut(IF silent THEN [client EXCEPT !.heard = Oldest] ELSE client)
         due     == Due(late)
         started == [session |-> [ticked EXCEPT !.heard = 0], belief |-> BoundAll(belief, due),
                     late |-> SubSeq(late, Len(due) + 1, Len(late))]
         told    == FoldLeft(Replied, started, SubSeq(replies, 1, nReplies))
         arrived == held \o SubSeq(feed, 1, nFeed)
     IN  \E handed \in {BeforeHole(arrived), arrived} :
           LET b      == Heeded(told.belief, handed)
               quotes == WantsToQuote(b, told.session)
               over   == ended \/ \E i \in DOMAIN arrived : arrived[i].type = "end"
               bye    == over /\ endedAt = NotYet
               wrote  == (IF quotes THEN <<[type |-> "U", price |-> QuotePrice(b)]>> ELSE << >>)
                         \o (IF bye THEN <<[type |-> "O"]>> ELSE << >>)
               broken == exchangeGone \/ gone
               leaves == \/ over /\ (broken \/ (~bye /\ now - endedAt > Grace))
                         \/ now >= LifeTime
               rest   == SubSeq(arrived, Len(handed) + 1, Len(arrived))
           IN  /\ gone => wrote /= << >>
               /\ exchangeGone' = broken
               /\ client' = told.session /\ late' = told.late /\ ended' = over
               /\ orders' = IF broken THEN orders ELSE orders \o wrote
               /\ ordersSent' = IF quotes THEN ordersSent + 1 ELSE ordersSent
               /\ lastQuoteAt' = IF quotes THEN b.applied ELSE lastQuoteAt
               /\ endedAt' = IF bye THEN now ELSE endedAt
               /\ phase' = IF leaves THEN "reported" ELSE "running"
               /\ belief' = IF leaves THEN Heeded(HeldDrained(b), rest) ELSE b
               /\ held' = IF leaves THEN << >> ELSE rest
  /\ replies' = SubSeq(replies, nReplies + 1, Len(replies))
  /\ feed' = SubSeq(feed, nFeed + 1, Len(feed))
  /\ UNCHANGED <<scenario, now, exchangeVars>>

\* What has been sent has arrived or has not: what is sent later is as good
\* as what arrives later.
Loop ==
  \E nReplies \in {0, Len(replies)}, nFeed \in {0, Len(feed)}, silent, gone \in BOOLEAN :
    Turn(nReplies, nFeed, silent, gone)

-----------------------------------------------------------------------------
(* The exchange and the wires, as far as this process can tell: Exchange   *)
(* has the code of the other side.  Nothing reads them after the report.   *)

Message(type, ref, shares) == [type |-> type, ref |-> ref, shares |-> shares]
OwnAdd(ref, price) ==
  [type |-> "A", ref |-> ref, locate |-> OurLocate, side |-> "buy", price |-> price,
   shares |-> scenario.quoteShares]
Ouch(kind, ref) == [type |-> "S", ouch |-> kind, ref |-> ref]

NextRef == HistoricalRefs + 1 + Cardinality(DOMAIN makers)

Answer(frames, msgs) == replies' = replies \o frames /\ feed' = feed \o msgs

\* An order rests, trades on arrival or is refused.
ExchangeReads ==
  /\ phase = "running" /\ orders /= << >> /\ orders' = Tail(orders)
  /\ CASE Head(orders).type = "L" -> Answer(<<[type |-> "A"]>>, << >>) /\ UNCHANGED makers
       [] Head(orders).type = "O" -> UNCHANGED <<replies, feed, makers>>
       [] OTHER ->
            \/ /\ Answer(<<Ouch("accepted", NextRef)>>, <<OwnAdd(NextRef, Head(orders).price)>>)
               /\ makers' = With(makers, NextRef, scenario.quoteShares)
            \/ /\ Answer(<<Ouch("accepted", NextRef), Ouch("executed", NextRef)>>, << >>)
               /\ makers' = With(makers, NextRef, 0)
            \/ Answer(<<Ouch("rejected", 0)>>, << >>) /\ UNCHANGED makers
  /\ UNCHANGED <<beliefVars, quoteVars, client, scenario, now, faults, tape>>

ExchangeFills ==
  /\ phase = "running"
  /\ \E ref \in DOMAIN makers : \E n \in 1..makers[ref] :
       /\ makers' = [makers EXCEPT ![ref] = @ - n]
       /\ Answer(<<Ouch("executed", ref)>>, <<Message("E", ref, n)>>)
  /\ UNCHANGED <<processVars, scenario, now, faults, tape>>

Publish ==
  /\ phase = "running" /\ tape /= << >> /\ tape' = Tail(tape) /\ feed' = Append(feed, Head(tape))
  /\ UNCHANGED <<processVars, scenario, now, replies, faults, makers>>

Lose ==
  /\ phase = "running" /\ faults < scenario.maxFaults /\ faults' = faults + 1
  /\ \E i \in DOMAIN feed :
       feed[i].type /= "lost" /\ feed' = [feed EXCEPT ![i] = [type |-> "lost"]]
  /\ UNCHANGED <<processVars, scenario, now, replies, exchangeVars>>

Pass ==
  /\ now < LifeTime /\ phase = "running" /\ now' = now + 1
  /\ UNCHANGED <<processVars, scenario, replies, feed, faults, exchangeVars>>

Next == Loop \/ ExchangeReads \/ ExchangeFills \/ Publish \/ Lose \/ Pass

Spec == Init /\ [][Next]_vars

-----------------------------------------------------------------------------
\* What is parked, in all: its shares, and those of them whose order was in
\* the book.
SharesIn(execs) == SumFunction([i \in DOMAIN execs |-> execs[i].shares])
InBookIn(execs) ==
  SumFunction([i \in DOMAIN execs |->
                IF execs[i].found THEN Signed(execs[i].side, execs[i].shares) ELSE 0])
ParkedShares(b) == SumFunction([r \in DOMAIN b.parked |-> SharesIn(b.parked[r].execs)])
ParkedInBook(b) == SumFunction([r \in DOMAIN b.parked |-> InBookIn(b.parked[r].execs)])

\* The executions of orders of ours the feed has shown, and those of them
\* whose add it had shown before.
OwnExecs(seen) == {i \in DOMAIN seen : seen[i].type = "E" /\ IsStrategyRef(seen[i].ref)}
Added(seen, i) == \E k \in 1..(i - 1) : seen[k].type = "A" /\ seen[k].ref = seen[i].ref
SharesSeen(seen) == SumFunction([i \in OwnExecs(seen) |-> seen[i].shares])
InBookSeen(seen) ==
  SumFunction([i \in OwnExecs(seen) |-> IF Added(seen, i) THEN seen[i].shares ELSE 0])

\* Whatever the order in which acknowledgements and the feed arrive, every
\* share the feed said was executed of one of our orders is counted once, or
\* is parked for an order whose acknowledgement has not been applied: nothing
\* of an order known to be ours stays parked.
CountedOnce ==
  /\ belief.fills + ParkedShares(belief) = SharesSeen(belief.seen)
  /\ \A r \in belief.refs : belief.parked[r] = NotParked

\* The position is that of the executions whose order the feed had shown us
\* before, a fill that empties the order included; a park loses nothing of it.
PositionIsTape == belief.position + ParkedInBook(belief) = InBookSeen(belief.seen)

Silent(queue) == \A i \in DOMAIN queue : ~(queue[i].type = "S" /\ queue[i].ouch = "accepted")

\* When the process reports after the whole feed and every acknowledgement
\* reached it, its position is what the exchange executed of its resting
\* orders, held acknowledgements and messages behind a hole included.
ReportIsTrue ==
  phase = "reported" /\ faults = 0 /\ feed = << >> /\ Silent(replies)
    /\ client.state = "LoggedIn"
  => belief.position = SharesSeen(belief.seen)

\* The best offer of our symbol, by a reading of the whole feed seen so far.
LeftOf(seen, i) ==
  IF \E k \in (i + 1)..Len(seen) : seen[k].type = "D" /\ seen[k].ref = seen[i].ref THEN 0
  ELSE seen[i].shares - SumFunction(
    [k \in (i + 1)..Len(seen) |->
      IF seen[k].type = "E" /\ seen[k].ref = seen[i].ref THEN seen[k].shares ELSE 0])
Offers(seen) ==
  {seen[i].price : i \in {k \in DOMAIN seen : /\ seen[k].type = "A" /\ seen[k].side = "sell"
                                              /\ seen[k].locate = OurLocate
                                              /\ LeftOf(seen, k) > 0}}

\* No order is sent that would trade with the book it was priced from: it is
\* under every offer of our own symbol, also when that book is crossed.  (The
\* turn that leaves the loop reads what is behind a hole after its quote.)
QuotesRest ==
  [][phase' = "running" => \A i \in (Len(orders) + 1)..Len(orders') :
       orders'[i].type = "U" => \A p \in Offers(belief'.seen) : orders'[i].price < p]_vars
=============================================================================
