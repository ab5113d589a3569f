---------------------------- MODULE SoupSession ----------------------------
(***************************************************************************)
(* soupbin/session.hpp: the two ends of a SoupBinTCP connection as records *)
(* and the operators that change them.  A session owns no thread and no    *)
(* socket: on_bytes(), tick() and the sends are called by an event loop.   *)
(* The two silence trackers are ages, the time since the last frame sent   *)
(* and since the last bytes heard, which stop growing at Oldest: the code  *)
(* only asks whether an age has reached a threshold.  A frame is its type. *)
(***************************************************************************)
EXTENDS Naturals, FiniteSetsExt

CONSTANTS
  HeartbeatAfter,      \* heartbeat_send_threshold_ns, both ends
  ClientDeadAfter,     \* the server's client_dead_threshold_ns
  LoginTimeout,        \* the server's login_timeout_ns
  ServerDeadAfter,     \* the client's server_dead_threshold_ns
  LoginResponseTimeout \* the client's login_response_timeout_ns

ASSUME TimersAssumption ==
  {HeartbeatAfter, ClientDeadAfter, LoginTimeout, ServerDeadAfter, LoginResponseTimeout}
    \subseteq Nat

Oldest == Max({HeartbeatAfter, ClientDeadAfter, LoginTimeout, ServerDeadAfter,
               LoginResponseTimeout})

TerminalStates == {"Rejected", "Ended", "LoginTimedOut", "Dead", "ProtocolViolation"}
IsTerminal(s) == s.state \in TerminalStates

\* A session that counts its sequenced messages from seq.
Opened(seq) == [state |-> "AwaitingLogin", sent |-> 0, heard |-> 0, seq |-> seq]
ServerOpened == Opened(1)
ClientOpened == Opened(0)

Older(s) == [s EXCEPT !.sent = Min({@ + 1, Oldest}), !.heard = Min({@ + 1, Oldest})]
Sent(s) == [s EXCEPT !.sent = 0]

\* The end of on_bytes(): bytes from a peer that was and is in the session
\* restart its silence, whether or not they completed a frame.
Heard(s, before) ==
  IF before \in TerminalStates \/ IsTerminal(s) THEN s ELSE [s EXCEPT !.heard = 0]

Expired(s, limit, state) == IF s.heard >= limit THEN [s EXCEPT !.state = state] ELSE s

-----------------------------------------------------------------------------
(* ServerSession.                                                          *)

\* One frame of on_bytes().  A frame that is not expected in this state, or
\* never from a client, is a violation, and so is every frame after it.
ServerDispatch(s, type) ==
  CASE s.state = "ProtocolViolation" -> s
    [] type \in {"R", "+"} -> s
    [] type = "L" /\ s.state = "AwaitingLogin" -> [s EXCEPT !.state = "LoginReceived"]
    [] type = "U" /\ s.state = "LoggedIn" -> s
    [] type = "O" /\ s.state \in {"LoggedIn", "LoginReceived"} -> [s EXCEPT !.state = "Ended"]
    [] OTHER -> [s EXCEPT !.state = "ProtocolViolation"]

\* Mutant: the client is given up where it should be waited for.
ServerTimedOutEarly(s) ==
  CASE s.state = "AwaitingLogin" -> Expired(s, LoginTimeout, "LoginTimedOut")
    [] s.state = "LoggedIn" -> Expired(s, HeartbeatAfter, "Dead")
    [] OTHER -> s

ServerTimedOut(s) ==
  CASE s.state = "AwaitingLogin" -> Expired(s, LoginTimeout, "LoginTimedOut")
    [] s.state = "LoggedIn" -> Expired(s, ClientDeadAfter, "Dead")
    [] OTHER -> s

\* tick(): time-outs first, then the heartbeat it owes.
ServerTick(s) ==
  LET t == ServerTimedOut(s)
      owes == t.state = "LoggedIn" /\ t.sent >= HeartbeatAfter
  IN  [session |-> IF owes THEN Sent(t) ELSE t,
       frames  |-> IF owes THEN <<"H">> ELSE << >>]

LoginAccepted(s) == Sent([s EXCEPT !.state = "LoggedIn"])

\* send_sequenced() of n messages: it looks at no state.
Sequenced(s, n) == IF n = 0 THEN s ELSE Sent([s EXCEPT !.seq = @ + n])

-----------------------------------------------------------------------------
(* ClientSession.                                                          *)

ClientDispatch(s, type) ==
  CASE s.state = "ProtocolViolation" -> s
    [] type \in {"+", "H"} -> s
    [] type = "A" /\ s.state = "AwaitingLogin" -> [s EXCEPT !.state = "LoggedIn"]
    [] type = "J" /\ s.state = "AwaitingLogin" -> [s EXCEPT !.state = "Rejected"]
    [] type = "S" /\ s.state = "LoggedIn" -> [s EXCEPT !.seq = @ + 1]
    [] type = "Z" /\ s.state = "LoggedIn" -> [s EXCEPT !.state = "Ended"]
    [] OTHER -> [s EXCEPT !.state = "ProtocolViolation"]

ClientTimedOut(s) ==
  CASE s.state = "AwaitingLogin" -> Expired(s, LoginResponseTimeout, "LoginTimedOut")
    [] s.state = "LoggedIn" -> Expired(s, ServerDeadAfter, "Dead")
    [] OTHER -> s

\* The client owes heartbeats from the moment it sent its login.
ClientTick(s) ==
  LET t == ClientTimedOut(s)
      owes == ~IsTerminal(t) /\ t.sent >= HeartbeatAfter
  IN  [session |-> IF owes THEN Sent(t) ELSE t,
       frames  |-> IF owes THEN <<"R">> ELSE << >>]
=============================================================================
