----------------------------- MODULE MCBookFeed -----------------------------
(* The kinds of day a feed handler meets, each small.                      *)
EXTENDS BookFeed

Quiet == [levels |-> 0, refs |-> <<1, 2, 3>>, quotes |-> {<<"buy", 1>>}, sizes |-> {1}, books |-> {1},
          kinds |-> {}, messages |-> 4, losses |-> 0, gaps |-> 0, restarts |-> 0,
          strays |-> FALSE, driver |-> "wire_to_book", policy |-> "rebuild"]

\* References that collide and wrap in a table of four, over two books,
\* and now and then a delete that names the other's order.
StorageDay ==
  [Quiet EXCEPT !.refs = <<3, 7, 4, 11, 8>>, !.books = {1, 2}, !.kinds = {"A", "D", "U"},
                !.messages = 6, !.strays = TRUE]
\* A band of three slots that opens on two sides, is missed and moves once.
BandDay ==
  [Quiet EXCEPT !.levels = 3, !.refs = <<1, 2, 3, 4, 5>>, !.kinds = {"A", "D"}, !.messages = 6,
                !.quotes = {<<"buy", 2>>, <<"buy", 3>>, <<"sell", 4>>, <<"sell", 8>>}]
\* A band around the first price, off which and off the grid orders overflow.
PercentDay ==
  [BandDay EXCEPT !.levels = 0, !.messages = 5, !.quotes = {<<"buy", 2>>, <<"buy", 4>>, <<"buy", 8>>, <<"sell", 3>>}]
\* Every kind of print, over a process that dies.
TapeDay ==
  [Quiet EXCEPT !.refs = <<1>>, !.sizes = {1, 2}, !.kinds = {"A", "E", "C", "X", "P", "Q"}, !.restarts = 1]
\* Losses, up to one gap more than the policy accepts.
GapDay ==
  [Quiet EXCEPT !.refs = <<3, 7, 4, 8>>, !.books = {1, 2}, !.sizes = {2}, !.kinds = {"A", "D", "E"},
                !.messages = 5, !.losses = 2, !.gaps = 2]
\* The same seen by mold_replay, which gives up at the limit or at once.
ReplayDay == [GapDay EXCEPT !.refs = <<3, 7, 4>>, !.books = {1}, !.driver = "mold_replay"]
StopDay == [ReplayDay EXCEPT !.policy = "halt", !.losses = 1]
\* A queue of several orders, saved and restored while it changes.
RestartDay ==
  [Quiet EXCEPT !.refs = <<4, 3, 2, 1>>, !.sizes = {2}, !.kinds = {"A", "E", "U"}, !.messages = 5,
                !.restarts = 2]
\* Crosses while halted, and a restart in the middle.
HaltDay ==
  [Quiet EXCEPT !.refs = <<1, 2>>, !.quotes = {<<"buy", 2>>, <<"sell", 1>>},
                !.kinds = {"A", "D", "H"}, !.messages = 5, !.restarts = 1]
\* Messages that are the market's or the symbol's, over two symbols.
MarketDay ==
  [Quiet EXCEPT !.books = {1, 2}, !.kinds = {"A", "H", "S", "W", "R", "B", "h"}, !.messages = 3]

MCScenarios ==
  [storage |-> StorageDay, band |-> BandDay, percent |-> PercentDay, tape |-> TapeDay, gap |-> GapDay, replay |-> ReplayDay, stop |-> StopDay,
   restart |-> RestartDay, halts |-> HaltDay, market |-> MarketDay]
=============================================================================
