---------------------------- MODULE ReaderThread ----------------------------
(***************************************************************************)
(* pipe/reader_thread.hpp, parse_threaded(): a producer thread reads framed *)
(* messages from a file into chunks and publishes each chunk in one ring   *)
(* slot; the caller's thread walks the chunks and calls the handler.  An   *)
(* exception on either side must end both threads and reach the caller.    *)
(*                                                                         *)
(* The ring is the queue SpscRing implements: writable() > 0 exactly when  *)
(* a slot is free, readable() is a lower bound that is 0 only when it is   *)
(* empty.  A message is its index in the file; what the file holds there   *)
(* is one of Kinds.                                                        *)
(***************************************************************************)
EXTENDS Naturals, Sequences

CONSTANTS
  Files,      \* the files to read
  Slots,      \* chunks the ring holds
  ChunkBytes  \* bytes a chunk holds; a small message is one byte

Kinds == {"small",   \* a message of one byte
          "large",   \* a message that fills a chunk
          "big",     \* larger than any chunk
          "wrong",   \* its length is not the one its type has: parse() throws
          "cut"}     \* the file ends inside its frame: the reader throws

ASSUME ReaderAssumption ==
  /\ Files \subseteq Seq(Kinds)
  /\ Slots \in Nat \ {0} /\ ChunkBytes \in Nat /\ ChunkBytes >= 2

VARIABLES
  file,      \* the file
  next,      \* index of the next message to read
  carry,     \* carry_len > 0: the message read but not placed, or 0
  chunk,     \* the messages placed in write_slot(0)
  producer,  \* "room", "fill", "finish" or "done" (done is set)
  failed,    \* error: the kind of the defect the producer threw on, or "none"
  ring,      \* published chunks
  consumer,  \* "poll", "empty", "walk", "drain", "join" or "returned"
  ready,     \* chunks in the batch being walked
  slot,      \* k: the chunk of the batch the walk is in
  walked,    \* o: messages of that chunk already handled
  handled,   \* history: messages the handler was called with
  caught,    \* consumer_error
  result     \* what the call returned: "none", "ok" or the defect rethrown

producerVars == <<next, carry, chunk, producer, failed>>
consumerVars == <<consumer, ready, slot, walked, handled, caught, result>>
vars == <<file, producerVars, ring, consumerVars>>

Bytes(i) == IF file[i] = "large" THEN ChunkBytes ELSE 1
Used(c) == IF \E k \in 1..Len(c) : file[c[k]] = "large" THEN ChunkBytes ELSE Len(c)

Init ==
  /\ file \in Files
  /\ next = 1 /\ carry = 0 /\ chunk = << >>
  /\ producer = "room" /\ failed = "none"
  /\ ring = << >>
  /\ consumer = "poll" /\ ready = 0 /\ slot = 1 /\ walked = 0
  /\ handled = << >> /\ caught = "none" /\ result = "none"

-----------------------------------------------------------------------------
(* The producer thread.                                                    *)

\* A free slot: an empty chunk, or one that starts with the carried message.
BeginChunk ==
  /\ producer = "room"
  /\ Len(ring) < Slots
  /\ chunk' = IF carry = 0 THEN << >> ELSE <<carry>>
  /\ carry' = 0
  /\ producer' = "fill"
  /\ UNCHANGED <<file, next, failed, ring, consumerVars>>

\* A truncated frame or a message no chunk can hold throws on the read; the
\* chunk being filled is abandoned.
ReadFails ==
  /\ producer = "fill" /\ next <= Len(file)
  /\ file[next] \in {"cut", "big"}
  /\ next' = next + 1
  /\ failed' = file[next]
  /\ producer' = "finish"
  /\ UNCHANGED <<file, carry, chunk, ring, consumerVars>>

\* Read and placed, or carried whole into the next chunk.
ReadMessage ==
  /\ producer = "fill" /\ next <= Len(file)
  /\ file[next] \notin {"cut", "big"}
  /\ next' = next + 1
  /\ IF Used(chunk) + Bytes(next) > ChunkBytes
       THEN /\ carry' = next
            /\ ring' = Append(ring, chunk)
            /\ chunk' = << >>
            /\ producer' = "room"
       ELSE /\ chunk' = Append(chunk, next)
            /\ UNCHANGED <<carry, ring, producer>>
  /\ UNCHANGED <<file, failed, consumerVars>>

\* End of file: what is staged is published; a carry cannot be pending here.
ReadEnd ==
  /\ producer = "fill" /\ next > Len(file)
  /\ ring' = IF chunk = << >> THEN ring ELSE Append(ring, chunk)
  /\ chunk' = << >>
  /\ producer' = IF carry = 0 THEN "finish" ELSE "room"
  /\ UNCHANGED <<file, next, carry, failed, consumerVars>>

SetDone ==
  /\ producer = "finish"
  /\ producer' = "done"
  /\ UNCHANGED <<file, next, carry, chunk, failed, ring, consumerVars>>

-----------------------------------------------------------------------------
(* The caller's thread.                                                    *)

Poll ==
  /\ consumer = "poll"
  /\ IF ring = << >>
       THEN /\ consumer' = "empty"
            /\ UNCHANGED <<ready, slot, walked>>
       ELSE /\ ready' \in 1..Len(ring)
            /\ slot' = 1 /\ walked' = 0
            /\ consumer' = "walk"
  /\ UNCHANGED <<file, producerVars, ring, handled, caught, result>>

\* Mutant: done is believed without a second look at the ring.
CheckDoneOnce ==
  /\ consumer = "empty"
  /\ consumer' = IF producer = "done" THEN "join" ELSE "poll"
  /\ UNCHANGED <<file, producerVars, ring, ready, slot, walked, handled, caught, result>>

\* Nothing was readable: leave only if done was set and still nothing is.
CheckDone ==
  /\ consumer = "empty"
  /\ consumer' = IF producer = "done" /\ ring = << >> THEN "join" ELSE "poll"
  /\ UNCHANGED <<file, producerVars, ring, ready, slot, walked, handled, caught, result>>

\* Mutant: a throw abandons the ring and goes straight to the join.
HandleMessageAbandons ==
  /\ consumer = "walk" /\ slot <= ready /\ walked < Len(ring[slot])
  /\ LET m == ring[slot][walked + 1]
     IN  IF file[m] = "wrong"
           THEN /\ caught' = "wrong" /\ consumer' = "join"
                /\ UNCHANGED <<walked, handled>>
           ELSE /\ handled' = Append(handled, m)
                /\ walked' = walked + 1
                /\ UNCHANGED <<caught, consumer>>
  /\ UNCHANGED <<file, producerVars, ring, ready, slot, result>>

\* One turn of the inner loop: the message's length is the one its type has,
\* and the handler is called, or the walk throws.
HandleMessage ==
  /\ consumer = "walk" /\ slot <= ready /\ walked < Len(ring[slot])
  /\ LET m == ring[slot][walked + 1]
     IN  IF file[m] = "wrong"
           THEN /\ caught' = "wrong" /\ consumer' = "drain"
                /\ UNCHANGED <<walked, handled>>
           ELSE /\ handled' = Append(handled, m)
                /\ walked' = walked + 1
                /\ UNCHANGED <<caught, consumer>>
  /\ UNCHANGED <<file, producerVars, ring, ready, slot, result>>

NextChunk ==
  /\ consumer = "walk" /\ slot <= ready /\ walked = Len(ring[slot])
  /\ slot' = slot + 1 /\ walked' = 0
  /\ UNCHANGED <<file, producerVars, ring, consumer, ready, handled, caught, result>>

ConsumeBatch ==
  /\ consumer = "walk" /\ slot > ready
  /\ ring' = SubSeq(ring, ready + 1, Len(ring))
  /\ consumer' = "poll"
  /\ UNCHANGED <<file, producerVars, ready, slot, walked, handled, caught, result>>

\* After a throw: keep the ring empty until the producer is done, then once
\* more for what it published in between.
Drain ==
  /\ consumer = "drain"
  /\ consumer' = IF producer = "done" THEN "join" ELSE "drain"
  /\ \E n \in 0..Len(ring) :
       /\ ring /= << >> => n > 0
       /\ ring' = SubSeq(ring, n + 1, Len(ring))
  /\ UNCHANGED <<file, producerVars, ready, slot, walked, handled, caught, result>>

\* join(), then rethrow: the consumer's error first, the producer's second.
Return ==
  /\ consumer = "join" /\ producer = "done"
  /\ result' = IF caught /= "none" THEN caught
               ELSE IF failed /= "none" THEN failed ELSE "ok"
  /\ consumer' = "returned"
  /\ UNCHANGED <<file, producerVars, ring, ready, slot, walked, handled, caught>>

Next ==
  \/ BeginChunk \/ ReadFails \/ ReadMessage \/ ReadEnd \/ SetDone
  \/ Poll \/ CheckDone \/ HandleMessage \/ NextChunk \/ ConsumeBatch \/ Drain \/ Return

Spec == Init /\ [][Next]_vars

\* Two operating-system threads, each of which keeps being scheduled.
Fairness ==
  /\ WF_vars(BeginChunk \/ ReadFails \/ ReadMessage \/ ReadEnd \/ SetDone)
  /\ WF_vars(Poll \/ CheckDone \/ HandleMessage \/ NextChunk \/ ConsumeBatch \/ Drain \/ Return)

FairSpec == Spec /\ Fairness

-----------------------------------------------------------------------------
(* Properties.                                                             *)

Messages == 1..Len(file)
Defects == {i \in Messages : file[i] \in {"big", "wrong", "cut"}}
FirstDefect == CHOOSE i \in Defects : \A j \in Defects : i <= j

TypeOK ==
  /\ file \in Files
  /\ next \in 1..(Len(file) + 1) /\ carry \in Messages \union {0}
  /\ chunk \in Seq(Messages) /\ ring \in Seq(Seq(Messages))
  /\ producer \in {"room", "fill", "finish", "done"}
  /\ consumer \in {"poll", "empty", "walk", "drain", "join", "returned"}
  /\ failed \in {"none", "big", "cut"} /\ caught \in {"none", "wrong"}
  /\ ready \in 0..Slots /\ slot \in 1..(Slots + 1) /\ walked \in Nat /\ handled \in Seq(Messages)
  /\ result \in {"none", "ok", "big", "cut", "wrong"}

\* The handler sees the file's messages in order, each once, and nothing at or
\* beyond the first defect; every chunk fits its slot and the ring its slots.
InOrder ==
  /\ \A k \in 1..Len(handled) : handled[k] = k
  /\ \A i \in Defects : Len(handled) < i
  /\ Used(chunk) <= ChunkBytes /\ \A k \in 1..Len(ring) : Used(ring[k]) <= ChunkBytes
  /\ Len(ring) <= Slots

\* A call that returns normally has handled the whole file, and a file with a
\* defect never returns normally (reader_thread.hpp:112).
HonestReturn ==
  /\ result = "ok" => Defects = {} /\ Len(handled) = Len(file)
  /\ result \notin {"none", "ok"} => \E i \in Defects : file[i] = result

\* The caller is given the file, in order and to its end or to its defect
\* (parse_threaded), and the result says which.
ReadsTheFile == InOrder /\ HonestReturn

\* The call returns, whatever the file holds and whichever side throws: no
\* spin on a ring nobody drains, none on a done nobody sets (:153 and :267).
CallReturns == <>(consumer = "returned")

\* Before it throws, the handler has had every message in front of the defect
\* (reader_thread.hpp:108, "Same contract as itchbook::parse()").
SamePrefix ==
  result /= "none" /\ Defects /= {} => Len(handled) = FirstDefect - 1
=============================================================================
