------------------------------ MODULE Exchange ------------------------------
(***************************************************************************)
(* The event loop of tools/exchange.cpp around a gateway, with the clients *)
(* that connect to it.  One iteration is the phases tick, poll, read,      *)
(* replay and drain, in that order; a read is taken apart frame by frame   *)
(* (phase dispatch), as on_bytes() does, because a frame can end the       *)
(* session or reach the gateway before the next one is looked at.          *)
(*                                                                         *)
(* Connections are numbered in the order clients make them; conn is the    *)
(* one the loop polls (cfd), 0 for none.  A client is a ClientSession and  *)
(* what a strategy does with it.  Each direction of a connection delivers  *)
(* frames in order; the server may read them in pieces and coalesced.      *)
(***************************************************************************)
EXTENDS Gateway

CONSTANTS Scenarios  \* name |-> what the clients, the feed and the clock may do

\* What a client may ask for and the feed may say; a client sends order
\* messages only as "U", and the engine has a reference for every order.
OrderSet == [side : Sides, price : Nat, shares : Nat, market : BOOLEAN, stock : BOOLEAN]
ASSUME ScenariosAssumption ==
  \A name \in DOMAIN Scenarios :
    LET s == Scenarios[name]
    IN  /\ s.orders \union s.replacements \subseteq OrderSet
        /\ s.history \subseteq [side : Sides, price : Nat, shares : Nat \ {0}]
        /\ s.tokens \in 0..MaxTokens /\ s.entered \in 0..MaxRefs /\ s.connections \in 0..2
        /\ "U" \notin s.last /\ s.leave \subseteq {"closed", "silent"}

VARIABLES
  scenario,
  phase,     \* where the loop is, or "stopped"
  conn,      \* cfd
  peerGone,  \* peer_gone
  feedDone,  \* feed_done
  chunk,     \* frames of the current read not dispatched yet
  entered,   \* the session's state when on_bytes() began
  torn,      \* the first frame to come has been read in part
  due,       \* the ends whose tick is due: "server", or a connection's number
  cli,       \* the clients' sessions
  link,      \* "none", "waiting" (to be accepted), "open", "closed" or "silent"
  toServer,  \* frames on their way, by connection
  toClient

loopVars == <<scenario, phase, conn, peerGone, feedDone, chunk, entered, torn>>
wireVars == <<cli, link, toServer, toClient>>
vars == <<gwVars, loopVars, due, wireVars>>

S == Scenarios[scenario]
Connections == 1..2
Server == 0  \* in due

\* Before a client connects there is no session.
NoSession == [state |-> "None", sent |-> 0, heard |-> 0, seq |-> 1]

Init ==
  /\ scenario \in DOMAIN Scenarios
  /\ GatewayInit /\ srv = NoSession
  /\ phase = "tick" /\ conn = 0 /\ peerGone = FALSE /\ feedDone = FALSE
  /\ chunk = << >> /\ entered = "None" /\ torn = FALSE /\ due = {}
  /\ cli = [c \in Connections |-> ClientOpened]
  /\ link = [c \in Connections |-> "none"]
  /\ toServer = [c \in Connections |-> << >>] /\ toClient = [c \in Connections |-> << >>]

-----------------------------------------------------------------------------
(* The loop.                                                               *)

\* An unconditional deadline test at the top of every iteration.
Tick ==
  /\ phase = "tick" /\ phase' = "poll"
  /\ IF Server \in due /\ srv /= NoSession
       THEN LET t == ServerTick(srv)
            IN  /\ srv' = t.session /\ out' = out \o t.frames
                /\ PollWith(t.session)
       ELSE UNCHANGED <<srv, out, orders, book, mirror, gw>>
  /\ due' = due \ {Server}
  /\ UNCHANGED <<kill, past, told, scenario, conn, peerGone, feedDone, chunk, entered, torn, wireVars>>

Waiting == {c \in Connections : link[c] = "waiting"}

\* accept(): the session and the gateway of the connection before, if there
\* was one, are replaced; its socket is not closed, and nothing reads it.
Accept ==
  /\ phase = "poll" /\ Waiting /= {}
  /\ LET c == Min(Waiting)
     IN  /\ conn' = c /\ link' = [link EXCEPT ![c] = "open"]
         /\ srv' = ServerOpened /\ gw' = NewGateway
         /\ told' = [t \in Tokens |-> Silence]
  /\ torn' = FALSE /\ phase' = "replay"
  /\ UNCHANGED <<orders, book, kill, past, out, mirror, scenario, peerGone, feedDone, chunk,
                 entered, due, cli, toServer, toClient>>

NothingToAccept ==
  /\ phase = "poll" /\ Waiting = {} /\ phase' = "read"
  /\ UNCHANGED <<gwVars, scenario, conn, peerGone, feedDone, chunk, entered, torn, due, wireVars>>

\* How much of a queue one read may find.
Pieces(q) == IF S.tears THEN 0..Len(q) ELSE {Len(q)}

\* read() returns what has arrived: some frames, the last perhaps in part.
Read ==
  /\ phase = "read" /\ conn /= 0 /\ toServer[conn] /= << >>
  /\ \E n \in Pieces(toServer[conn]) \ (IF torn THEN {0} ELSE {}) :
       /\ chunk' = SubSeq(toServer[conn], 1, n)
       /\ toServer' = [toServer EXCEPT ![conn] = SubSeq(@, n + 1, Len(@))]
       /\ torn' = (n = 0)
  /\ entered' = srv.state /\ phase' = "dispatch"
  /\ UNCHANGED <<gwVars, scenario, conn, peerGone, feedDone, due, cli, link, toClient>>

\* read() returns 0.
ReadEof ==
  /\ phase = "read" /\ conn /= 0 /\ toServer[conn] = << >> /\ link[conn] = "closed"
  /\ peerGone' = TRUE /\ phase' = "replay"
  /\ UNCHANGED <<gwVars, scenario, conn, feedDone, chunk, entered, torn, due, wireVars>>

\* read() would block.
ReadNothing ==
  /\ phase = "read"
  /\ conn /= 0 => toServer[conn] = << >> /\ link[conn] /= "closed"
  /\ phase' = "replay"
  /\ UNCHANGED <<gwVars, scenario, conn, peerGone, feedDone, chunk, entered, torn, due, wireVars>>

\* One frame of drain(): an order message reaches the gateway.
Dispatch ==
  /\ phase = "dispatch" /\ chunk /= << >> /\ chunk' = Tail(chunk)
  /\ LET f == Head(chunk)
         s == ServerDispatch(srv, f.type)
     IN  IF f.type = "U" /\ s.state = "LoggedIn"
           THEN OnOuch(f)
           ELSE srv' = s /\ UNCHANGED <<gw, orders, book, kill, past, out, mirror, told>>
  /\ UNCHANGED <<scenario, phase, conn, peerGone, feedDone, entered, torn, due, wireVars>>

\* The end of on_bytes(), the login decision and poll(); then read() again.
EndRead ==
  /\ phase = "dispatch" /\ chunk = << >> /\ phase' = "read"
  /\ LET heard == Heard(srv, entered)
         asked == heard.state = "LoginReceived"
         s     == IF asked THEN LoginAccepted(heard) ELSE heard
     IN  /\ srv' = s /\ out' = IF asked THEN Append(out, "A") ELSE out
         /\ PollWith(s)
  /\ UNCHANGED <<kill, past, told, scenario, conn, peerGone, feedDone, chunk, entered, torn, due,
                 wireVars>>

\* One message of the day: an execution is an aggressor that walks the queue,
\* and everything else is applied to the book and republished.
ReplayApplies ==
  \/ \E ref \in History : \E n \in 1..past[ref] : FeedExecutes(ref, n)
  \/ \E ref \in History : \E o \in S.history : FeedAdds(ref, o.side, o.price, o.shares)
  \/ \E ref \in History : \E n \in 1..past[ref] : FeedReduces(ref, n)
  \/ \E ref \in History : FeedDeletes(ref)
  \/ \E old, new \in History : \E o \in S.history : FeedReplaces(old, new, o.price, o.shares)

Replay ==
  /\ phase = "replay" /\ ~feedDone /\ phase' = "drain"
  /\ ReplayApplies
  /\ UNCHANGED <<scenario, conn, peerGone, feedDone, chunk, entered, torn, due, wireVars>>

NothingDue ==
  /\ phase = "replay" /\ phase' = "drain"
  /\ UNCHANGED <<gwVars, scenario, conn, peerGone, feedDone, chunk, entered, torn, due, wireVars>>

EndFeed ==
  /\ phase = "replay" /\ ~feedDone /\ S.feedEnds /\ feedDone' = TRUE /\ phase' = "drain"
  /\ UNCHANGED <<gwVars, scenario, conn, peerGone, chunk, entered, torn, due, wireVars>>

\* Mutant: bytes the socket did not take are dropped.
UnwrittenDropped(n) == << >>

\* What a short write leaves in the queue.
Unwritten(n) == SubSeq(out, n + 1, Len(out))

\* write() takes some of the queue, or fails because the peer is gone; a
\* connection whose peer is gone is closed and its queue dropped; the loop
\* ends once the feed is done and the client is, or a minute after the feed.
Drain ==
  /\ phase = "drain"
  /\ LET broken == conn /= 0 /\ out /= << >> /\ link[conn] = "closed"
         wrote  == conn /= 0 /\ link[conn] /= "closed"
         gone   == peerGone \/ broken
         left   == IF gone THEN 0 ELSE conn
     IN  \E n \in (IF S.shortWrites /\ wrote THEN 0..Len(out) ELSE {Len(out)}) :
           LET queue == CASE gone /\ conn /= 0 -> << >>
                          [] wrote -> Unwritten(n)
                          [] OTHER -> out
           IN  /\ toClient' = IF wrote /\ link[conn] = "open"
                                THEN [toClient EXCEPT ![conn] = @ \o SubSeq(out, 1, n)]
                                ELSE toClient
               /\ peerGone' = gone /\ conn' = left /\ out' = queue
               /\ link' = IF gone /\ conn /= 0 THEN [link EXCEPT ![conn] = "closed"] ELSE link
               /\ LET over == feedDone /\ queue = << >> /\ (left = 0 \/ IsTerminal(srv))
                  IN  \/ ~over /\ phase' = "tick"
                      \/ feedDone /\ phase' = "stopped"
  /\ UNCHANGED <<srv, gw, orders, book, kill, past, mirror, told, scenario, feedDone, chunk,
                 entered, torn, due, cli, toServer>>

Loop ==
  \/ Tick \/ Accept \/ NothingToAccept \/ Read \/ ReadEof \/ ReadNothing
  \/ Dispatch \/ EndRead \/ Replay \/ NothingDue \/ EndFeed \/ Drain

-----------------------------------------------------------------------------
(* The clients.                                                            *)

Frame(type) == [type |-> type]
Send(c, frames) == toServer' = [toServer EXCEPT ![c] = @ \o frames]
Talking(c) == link[c] \in {"waiting", "open"}

\* What a client does or the clock shows anywhere in an iteration the loop
\* finds as if it had happened before its next read(), or between two of them.
Unwatched == phase = "read"

\* The constructor sends the login.
Connect ==
  /\ \E c \in 1..S.connections :
       /\ link[c] = "none" /\ \A d \in 1..(c - 1) : link[d] /= "none"
       /\ link' = [link EXCEPT ![c] = "waiting"]
       /\ Send(c, <<Frame("L")>>)
  /\ UNCHANGED <<gwVars, loopVars, due, cli, toClient>>

ClientTicks ==
  /\ \E c \in due \ {Server} :
       /\ due' = due \ {c}
       /\ LET t == ClientTick(cli[c])
          IN  /\ cli' = [cli EXCEPT ![c] = t.session]
              /\ Send(c, [i \in 1..Len(t.frames) |-> Frame(t.frames[i])])
  /\ UNCHANGED <<gwVars, loopVars, link, toClient>>

ClientReads ==
  /\ \E c \in Connections :
       /\ Talking(c) /\ toClient[c] /= << >>
       /\ \E n \in Pieces(toClient[c]) :
            /\ toClient' = [toClient EXCEPT ![c] = SubSeq(@, n + 1, Len(@))]
            /\ cli' = [cli EXCEPT ![c] =
                         Heard(FoldLeft(ClientDispatch, @, SubSeq(toClient[c], 1, n)), @.state)]
  /\ UNCHANGED <<gwVars, loopVars, due, link, toServer>>

\* The frames of a queue that would enter an order.
Pending(q) == Cardinality({i \in DOMAIN q : q[i].type = "U" /\ q[i].ouch /= "cancel"})

\* Orders asked for, whether or not they have reached the engine.
Asked == Cardinality(Issued) + Pending(chunk) + Pending(toServer[1]) + Pending(toServer[2])

\* The strategy enters, replaces and cancels orders.
SendOrder ==
  /\ \E c \in Connections :
       /\ link[c] = "open" /\ cli[c].state = "LoggedIn" /\ Len(toServer[c]) < S.burst
       /\ srv.seq <= S.answers
       /\ \/ \E t \in 1..S.tokens, o \in S.orders :
               /\ Asked < S.entered
               /\ Send(c, <<[type |-> "U", ouch |-> "enter", token |-> t, order |-> o]>>)
          \/ \E t, u \in 1..S.tokens, o \in S.replacements :
               /\ Asked < S.entered /\ gw.token[t] /= 0
               /\ Send(c, <<[type |-> "U", ouch |-> "replace", token |-> t, fresh |-> u,
                             order |-> o]>>)
          \/ \E t \in 1..S.tokens :
               /\ gw.token[t] /= 0
               /\ Send(c, <<[type |-> "U", ouch |-> "cancel", token |-> t]>>)
       /\ cli' = [cli EXCEPT ![c] = Sent(@)]
  /\ UNCHANGED <<gwVars, loopVars, due, link, toClient>>

\* send_logout(), or a packet the server does not expect.
SendLast ==
  /\ \E c \in Connections, type \in S.last :
       /\ link[c] = "open" /\ Len(toServer[c]) < S.burst
       /\ \A i \in DOMAIN toServer[c] : toServer[c][i].type \notin {"O", "L"}
       /\ ~IsTerminal(srv)
       /\ Send(c, <<Frame(type)>>)
       /\ cli' = [cli EXCEPT ![c] = Sent(@)]
  /\ UNCHANGED <<gwVars, loopVars, due, link, toClient>>

\* The client's process ends, or its host falls silent.
Leave ==
  /\ \E c \in Connections, how \in S.leave :
       /\ link[c] = "open" /\ link' = [link EXCEPT ![c] = how]
       /\ due' = due \ {c}
  /\ UNCHANGED <<gwVars, loopVars, cli, toServer, toClient>>

TripKill == S.trips /\ Trip /\ UNCHANGED <<loopVars, due, wireVars>>

\* Time passes.  On punctual clocks and wires no tick and no frame is late.
Punctual == due = {} /\ \A c \in Connections : Talking(c) => toServer[c] = << >> /\ toClient[c] = << >>
                     /\ out = << >> /\ chunk = << >>
Pass ==
  /\ S.clock /\ Unwatched
  /\ S.punctual => Punctual
  /\ \A c \in Connections : Talking(c) => Len(toServer[c]) < S.burst /\ Len(toClient[c]) < S.burst
  /\ due' = {Server} \union {c \in Connections : Talking(c) /\ ~IsTerminal(cli[c])}
  /\ srv' = IF srv = NoSession THEN srv ELSE Older(srv)
  /\ cli' = [c \in Connections |-> IF Talking(c) THEN Older(cli[c]) ELSE cli[c]]
  /\ UNCHANGED <<gw, orders, book, kill, past, out, mirror, told, loopVars, link, toServer, toClient>>

Clients ==
  /\ Unwatched
  /\ Connect \/ ClientTicks \/ ClientReads \/ SendOrder \/ SendLast \/ Leave \/ TripKill

Next == Loop \/ Clients \/ Pass

Spec == Init /\ [][Next]_vars

\* The loop turns and time passes, at a phase where Unwatched lets it; nothing
\* is assumed of clients.
Fairness == WF_vars(Loop) /\ SF_vars(Pass)
FairSpec == Spec /\ Fairness

-----------------------------------------------------------------------------
(* What must hold.                                                         *)

\* The set of orders flatten() goes through instead of the matcher's table is
\* kept by hand in six places: it is always the orders of this gateway that
\* are not done, and each of them rests with the shares its record says.
LiveIsLive ==
  /\ gw.live = {r \in Ours(gw) : ~Done(orders[r].state)}
  /\ \A r \in Refs :
       orders[r].resting = Shares({e \in book : e.ref = r})

\* What is published is what is held: a subscriber that applies the adds,
\* executions, deletes and replaces of the replay and of the gateway, which
\* share the tape, holds the exchange's own book, in the same order of time.
MirrorIsBook == mirror = book

\* The three records of what rests agree: the book, the gateway's own list and
\* what a subscriber makes of the feed.
BooksAgree == LiveIsLive /\ MirrorIsBook

\* A client still in its session was told of every share of its orders that
\* traded, on either side, and of every share that died, once; and the
\* position the limits are checked against is what its orders traded.
ToldTheTruth ==
  LET mine == {t \in Tokens : gw.token[t] /= 0}
      traded(t) == Signed(orders[gw.token[t]].side, orders[gw.token[t]].filled)
  IN  /\ gw.position = SumFunction([t \in mine |-> traded(t)])
      /\ srv.state = "LoggedIn" =>
           \A t \in mine : /\ told[t].executed = orders[gw.token[t]].filled
                          /\ told[t].cancelled = orders[gw.token[t]].cancelled

\* The two ends of a connection count the same messages: what the server has
\* numbered is what the client has counted and what is still queued or on the
\* wire, whatever the socket takes of the queue at a time.
SequencesAgree ==
  LET numbered(q) == Cardinality({i \in DOMAIN q : q[i] = "S"})
  IN  (conn = 1 /\ link[1] = "open" /\ cli[1].state \in {"AwaitingLogin", "LoggedIn"}) =>
        srv.seq - 1 = cli[1].seq + numbered(toClient[1]) + numbered(out)

\* With a heartbeat owed well inside the time a silence is fatal, a peer whose
\* ticks and frames are not late is never given up for dead.
NoFalseDeath ==
  S.punctual => /\ srv.state \notin {"Dead", "LoginTimedOut"}
                /\ cli[1].state \in {"Dead", "LoginTimedOut"} => IsTerminal(srv)

\* docs/phase12-design.md:190 "a dead session flattens": once the client of
\* the connection has hung up or fallen silent, none of its orders stays in
\* the book, unless the exchange itself stops.
Gone(c) == link[c] \in {"closed", "silent"}
DeadSessionFlattens ==
  Gone(1) ~> (phase = "stopped" \/ \A e \in book : ~IsStrategyRef(e.ref))

\* gateway.hpp:476 "every check on the REPLACEMENT runs to completion before
\* the original is touched": a replace that is refused leaves the original.
ReplaceKeepsOne ==
  [][(phase = "dispatch" /\ chunk /= << >> /\ Head(chunk).type = "U") =>
       LET f == Head(chunk)
       IN  (f.ouch = "replace" /\ gw.token[f.token] \in gw.live \ gw'.live)
             => gw'.token[f.fresh] /= 0]_vars
=============================================================================
