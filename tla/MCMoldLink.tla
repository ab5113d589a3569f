----------------------------- MODULE MCMoldLink -----------------------------
(***************************************************************************)
(* A publisher, a lossy network and a sequencer, small: enough messages to *)
(* fill the reorder buffer behind a hole and to overlap two packets.       *)
(***************************************************************************)
EXTENDS MoldLink

Weather(heartbeats, clipping, retransmits, starts, messages) ==
  [heartbeats |-> heartbeats, clipping |-> clipping, retransmits |-> retransmits,
   starts |-> starts, messages |-> messages]

Plain == Weather(FALSE, FALSE, FALSE, 1, 5)
Overlapping == Weather(FALSE, TRUE, TRUE, 1, 3)
Paced == Weather(TRUE, FALSE, FALSE, 1, 4)
Restarted == Weather(FALSE, FALSE, FALSE, 2, 2)

AllWeathers == {Plain, Overlapping, Paced, Restarted}

LinkSessions == {1, 2}
LinkNumbers == 1..6
LinkCounts == (1..PerPacket) \ {EndOfSession}
=============================================================================
