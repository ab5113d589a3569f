------------------------- MODULE ReaderThreadProofs -------------------------
(***************************************************************************)
(* Proofs about the threaded reader for every set of files, every size of  *)
(* chunk and every number of slots.  The idea: the messages are in one     *)
(* line, those handled, those in the ring, those staged, the one carried   *)
(* and those not read, and each thread only ever moves the boundary that   *)
(* is its own.                                                             *)
(***************************************************************************)
EXTENDS ReaderThread, Integers, SequenceTheorems, TLAPS

-----------------------------------------------------------------------------
(* The invariant.                                                          *)

\* The messages that were read whole are those in front of ReadTo.
ReadTo == IF failed = "none" THEN next ELSE next - 1

\* The message that opens the open chunk, or will.
ChunkStart == (IF carry = 0 THEN ReadTo ELSE carry) - Len(chunk)

\* Chunk c holds consecutive messages.
IsRun(c) == \A k \in 1..Len(c) : c[k] = c[1] + (k - 1)
RunEnd(c) == c[1] + Len(c)

\* The first message of the chunk in slot i, and of the chunk behind the last.
Front(i) == IF i <= Len(ring) THEN ring[i][1] ELSE ChunkStart

\* The next message for the handler.
Position == IF consumer = "walk" THEN Front(slot) + walked ELSE Front(1)

Types ==
  /\ file \in Files
  /\ next \in Nat \ {0} /\ carry \in Nat
  /\ chunk \in Seq(Nat \ {0}) /\ ring \in Seq(Seq(Nat \ {0}))
  /\ producer \in {"room", "fill", "finish", "done"}
  /\ consumer \in {"poll", "empty", "walk", "drain", "join", "returned"}
  /\ failed \in {"none", "big", "cut"} /\ caught \in {"none", "wrong"}
  /\ ready \in 0..Slots /\ slot \in 1..(ready + 1) /\ walked \in Nat
  /\ handled \in Seq(Nat \ {0})
  /\ result \in {"none", "ok", "big", "cut", "wrong"}

\* What the producer has read, and where it stands.
Reads ==
  /\ next <= Len(file) + 1
  /\ \A i \in 1..Len(file) : i < ReadTo => file[i] \notin {"big", "cut"}
  /\ failed /= "none" =>
       next > 1 /\ file[next - 1] = failed /\ producer \in {"finish", "done"}
  /\ carry /= 0 => carry + 1 = next /\ failed = "none" /\ producer = "room"
  /\ producer = "room" => chunk = << >>
  /\ producer \in {"finish", "done"} /\ failed = "none" => next = Len(file) + 1 /\ chunk = << >>

\* Staged and published chunks follow on one another up to what was read.
InLine ==
  /\ ChunkStart > 0
  /\ \A k \in 1..Len(chunk) : chunk[k] = ChunkStart + (k - 1)
  /\ \A i \in 1..Len(ring) : ring[i] /= << >> /\ IsRun(ring[i])
  /\ \A i \in 1..Len(ring) :
       /\ RunEnd(ring[i]) = IF i < Len(ring) THEN ring[i + 1][1] ELSE ChunkStart
       /\ RunEnd(ring[i]) <= ChunkStart

\* Every chunk fits its slot, and the ring its slots.
Fits ==
  /\ Used(chunk) <= ChunkBytes /\ \A k \in 1..Len(ring) : Used(ring[k]) <= ChunkBytes
  /\ Len(ring) <= Slots /\ (producer = "fill" => Len(ring) < Slots)

\* What the handler was called with, and where the caller stands.
Handles ==
  /\ \A k \in 1..Len(handled) : handled[k] = k
  /\ \A k \in 1..Len(handled) : k < ReadTo /\ file[k] /= "wrong"
  /\ caught = "none" => Position = Len(handled) + 1
  /\ consumer = "walk" =>
       /\ ready <= Len(ring)
       /\ walked <= (IF slot <= ready THEN Len(ring[slot]) ELSE 0)

\* How the two threads end.
Ends ==
  /\ consumer \in {"poll", "empty", "walk"} => caught = "none"
  /\ consumer = "drain" => caught = "wrong"
  /\ caught = "wrong" => \E i \in 1..Len(file) : file[i] = "wrong"
  /\ consumer \in {"join", "returned"} => producer = "done" /\ (caught = "none" => ring = << >>)
  /\ result /= "none" =>
       /\ consumer = "returned"
       /\ result = IF caught /= "none" THEN caught ELSE IF failed /= "none" THEN failed ELSE "ok"

IInv == Types /\ Reads /\ InLine /\ Fits /\ Handles /\ Ends

-----------------------------------------------------------------------------
(* Chunks.                                                                 *)

\* A file is a sequence of kinds, and what the lemmas say of constants.
LEMMA FileTypes ==
  ASSUME Types
  PROVE  /\ file \in Seq(Kinds) /\ Len(file) \in Nat
         /\ Slots \in Nat \ {0} /\ ChunkBytes \in Nat /\ ChunkBytes >= 2
BY ReaderAssumption DEF Types

\* The types of the chunks and of the counters that run over them.
LEMMA ChunkTypes ==
  ASSUME Types
  PROVE  /\ next \in Nat /\ carry \in Nat /\ ReadTo \in Int /\ ChunkStart \in Int
         /\ chunk \in Seq(Nat \ {0}) /\ Len(chunk) \in Nat
         /\ ring \in Seq(Seq(Nat \ {0})) /\ Len(ring) \in Nat
         /\ \A i \in 1..Len(ring) : ring[i] \in Seq(Nat \ {0}) /\ Len(ring[i]) \in Nat
         /\ ready \in Nat /\ slot \in 1..(ready + 1) /\ walked \in Nat
         /\ handled \in Seq(Nat \ {0}) /\ Len(handled) \in Nat
<1>1. next \in Nat /\ carry \in Nat /\ chunk \in Seq(Nat \ {0}) /\ Len(chunk) \in Nat
  BY DEF Types
<1>2. ReadTo \in Int /\ ChunkStart \in Int
  BY <1>1 DEF ReadTo, ChunkStart
<1>3. ring \in Seq(Seq(Nat \ {0})) /\ Len(ring) \in Nat
  BY DEF Types
<1>4. \A i \in 1..Len(ring) : ring[i] \in Seq(Nat \ {0}) /\ Len(ring[i]) \in Nat
  BY <1>3
<1>5. ready \in Nat /\ slot \in 1..(ready + 1) /\ walked \in Nat
  BY FileTypes DEF Types
<1>6. handled \in Seq(Nat \ {0}) /\ Len(handled) \in Nat
  BY DEF Types
<1> QED BY <1>1, <1>2, <1>3, <1>4, <1>5, <1>6

\* An empty chunk uses nothing; a message that still fits leaves it within
\* its bytes, and one that does not fit finds it with messages in it.
LEMMA UsedEmpty == Used(<< >>) = 0
BY DEF Used

LEMMA UsedAppend ==
  ASSUME Types, NEW c \in Seq(Nat \ {0}), NEW m \in Nat \ {0}, Used(c) <= ChunkBytes
  PROVE  /\ Used(c) \in Nat /\ Bytes(m) \in 1..ChunkBytes
         /\ Used(c) + Bytes(m) <= ChunkBytes => Used(Append(c, m)) <= ChunkBytes
         /\ Used(c) + Bytes(m) > ChunkBytes => c /= << >>
<1>1. /\ Len(c) \in Nat /\ Len(Append(c, m)) = Len(c) + 1
      /\ Append(c, m)[Len(c) + 1] = m
      /\ \A k \in 1..Len(c) : Append(c, m)[k] = c[k]
  OBVIOUS
<1>2. Used(c) \in Nat /\ Bytes(m) \in 1..ChunkBytes
  BY <1>1, FileTypes DEF Used, Bytes
<1>3. ASSUME Used(c) + Bytes(m) <= ChunkBytes PROVE Used(Append(c, m)) <= ChunkBytes
  <2>1. CASE file[m] = "large"
    <3>1. Used(Append(c, m)) = ChunkBytes
      BY <1>1, <2>1 DEF Used
    <3> QED BY <3>1, FileTypes
  <2>2. CASE file[m] /= "large"
    <3>1. Bytes(m) = 1 /\ Used(c) < ChunkBytes
      BY <1>2, <1>3, <2>2, FileTypes DEF Bytes
    <3>2. ~ \E k \in 1..Len(c) : file[c[k]] = "large"
      BY <3>1, FileTypes DEF Used
    <3>3. Used(c) = Len(c)
      BY <3>2 DEF Used
    <3>4. ~ \E k \in 1..Len(Append(c, m)) : file[Append(c, m)[k]] = "large"
      BY <1>1, <2>2, <3>2
    <3>5. Used(Append(c, m)) = Len(c) + 1
      BY <1>1, <3>4 DEF Used
    <3> QED BY <1>3, <3>1, <3>3, <3>5
  <2> QED BY <2>1, <2>2
<1>4. ASSUME Used(c) + Bytes(m) > ChunkBytes PROVE c /= << >>
  BY <1>2, <1>4, UsedEmpty, FileTypes
<1> QED BY <1>2, <1>3, <1>4

-----------------------------------------------------------------------------
(* The producer's steps.                                                   *)

LEMMA InitInv == Init => IInv
<1> SUFFICES ASSUME Init PROVE IInv
  OBVIOUS
<1>1. Types
  BY ReaderAssumption DEF Init, Types
<1>2. Used(chunk) = 0
  BY UsedEmpty DEF Init
<1>3. Reads /\ InLine /\ Handles /\ Ends
  BY <1>1, FileTypes DEF Init, Reads, InLine, Handles, Ends, ReadTo, ChunkStart, Front, Position
<1>4. Fits
  BY <1>1, <1>2, FileTypes DEF Init, Fits
<1> QED BY <1>1, <1>3, <1>4 DEF IInv

\* What the caller knows stands as long as the line in front of it does.
LEMMA CallerUntouched ==
  ASSUME IInv, Types', UNCHANGED <<file, consumerVars>>,
         ReadTo' >= ReadTo, Position' = Position,
         Len(ring') >= Len(ring), \A i \in 1..Len(ring) : ring'[i] = ring[i]
  PROVE  Handles'
<1>1. /\ Len(handled) \in Nat /\ Len(ring) \in Nat /\ Len(ring') \in Nat
      /\ ReadTo \in Int /\ ReadTo' \in Int
  BY DEF IInv, Types, ReadTo
<1>2. /\ handled' = handled /\ caught' = caught /\ consumer' = consumer
      /\ ready' = ready /\ slot' = slot /\ walked' = walked /\ file' = file
  BY DEF consumerVars
<1>3. consumer = "walk" =>
        /\ ready \in 0..Len(ring) /\ slot \in 1..(ready + 1) /\ ready <= Len(ring')
        /\ walked <= (IF slot <= ready THEN Len(ring'[slot]) ELSE 0)
  <2> SUFFICES ASSUME consumer = "walk"
               PROVE  /\ ready \in 0..Len(ring) /\ slot \in 1..(ready + 1) /\ ready <= Len(ring')
                      /\ walked <= (IF slot <= ready THEN Len(ring'[slot]) ELSE 0)
    OBVIOUS
  <2>1. ready \in 0..Len(ring) /\ slot \in 1..(ready + 1) /\ ready <= Len(ring')
    BY <1>1 DEF IInv, Types, Handles
  <2>2. walked <= (IF slot <= ready THEN Len(ring[slot]) ELSE 0)
    BY DEF IInv, Handles
  <2>3. slot <= ready => ring'[slot] = ring[slot]
    BY <1>1, <2>1
  <2> QED BY <2>1, <2>2, <2>3
<1>4. \A k \in 1..Len(handled) : handled[k] = k /\ k < ReadTo' /\ file[k] /= "wrong"
  BY <1>1 DEF IInv, Handles
<1>5. caught = "none" => Position' = Len(handled) + 1
  BY DEF IInv, Handles
<1> QED BY <1>2, <1>3, <1>4, <1>5 DEF Handles

LEMMA BeginChunkInv == ASSUME IInv, BeginChunk PROVE IInv'
<1>0. /\ chunk = << >> /\ carry \in Nat /\ carry' = 0 /\ UNCHANGED <<next, failed, file, ring>>
      /\ carry = 0 => chunk' = << >>
      /\ carry /= 0 => chunk' = <<carry>> /\ carry + 1 = next /\ failed = "none"
      /\ next \in Nat \ {0}
  BY DEF IInv, Types, Reads, BeginChunk
<1>1. Types'
  <2>1. CASE carry = 0
    BY <1>0, <2>1 DEF IInv, Types, BeginChunk, consumerVars
  <2>2. CASE carry /= 0
    <3>1. <<carry>> \in Seq(Nat \ {0})
      BY <1>0, <2>2
    <3> QED BY <1>0, <2>2, <3>1 DEF IInv, Types, BeginChunk, consumerVars
  <2> QED BY <2>1, <2>2
<1>2. /\ ReadTo' = ReadTo /\ ChunkStart' = ChunkStart
      /\ \A k \in 1..Len(chunk') : chunk'[k] = ChunkStart' + (k - 1)
  <2>1. Len(<< >>) = 0 /\ Len(<<carry>>) = 1 /\ <<carry>>[1] = carry
    OBVIOUS
  <2>2. ReadTo' = ReadTo /\ ReadTo \in Int /\ (failed = "none" => ReadTo = next)
    BY <1>0 DEF ReadTo
  <2>3. CASE carry = 0
    BY <1>0, <2>1, <2>2, <2>3 DEF ChunkStart
  <2>4. CASE carry /= 0
    <3>1. Len(chunk') = 1 /\ chunk'[1] = carry
      BY <1>0, <2>1, <2>4
    <3>2. ChunkStart = carry - 0
      BY <1>0, <2>1, <2>4 DEF ChunkStart
    <3>3. ChunkStart' = next - 1
      BY <1>0, <2>2, <2>4, <3>1 DEF ChunkStart
    <3> QED BY <1>0, <2>2, <2>4, <3>1, <3>2, <3>3
  <2> QED BY <2>3, <2>4
<1>3. Reads'
  BY <1>2 DEF IInv, Types, Reads, BeginChunk
<1>4. InLine'
  BY <1>2 DEF IInv, InLine, BeginChunk, IsRun, RunEnd
<1>5. Used(chunk') <= ChunkBytes /\ file' = file
  <2>1. Used(<< >>) <= ChunkBytes
    BY UsedEmpty, FileTypes DEF IInv
  <2>2. ASSUME carry /= 0 PROVE Used(Append(<< >>, carry)) <= ChunkBytes
    <3>0. carry \in Nat \ {0} /\ << >> \in Seq(Nat \ {0}) /\ Types
      BY <2>2 DEF IInv, Types
    <3>1. Bytes(carry) \in 1..ChunkBytes
      BY <2>1, <3>0, UsedAppend
    <3>2. Used(<< >>) + Bytes(carry) <= ChunkBytes
      BY <3>0, <3>1, UsedEmpty, FileTypes
    <3> QED BY <2>1, <3>0, <3>2, UsedAppend
  <2>3. <<carry>> = Append(<< >>, carry)
    BY <1>0
  <2> QED BY <1>0, <2>1, <2>2, <2>3
<1>6. Fits'
  BY <1>5 DEF IInv, Fits, BeginChunk, Used
<1>7. Handles'
  <2>1. Position' = Position
    BY <1>0, <1>2 DEF Position, Front, BeginChunk, consumerVars
  <2>2. /\ ReadTo' >= ReadTo /\ Len(ring') >= Len(ring) /\ \A i \in 1..Len(ring) : ring'[i] = ring[i]
    BY <1>0, <1>2 DEF IInv, Types, ReadTo
  <2> QED BY <1>1, <2>1, <2>2, CallerUntouched DEF BeginChunk
<1>8. Ends'
  BY DEF IInv, Ends, BeginChunk, consumerVars
<1> QED BY <1>1, <1>3, <1>4, <1>6, <1>7, <1>8 DEF IInv

LEMMA ReadFailsInv == ASSUME IInv, ReadFails PROVE IInv'
<1>1. Types'
  BY DEF IInv, Types, ReadFails, consumerVars
<1>2. carry = 0 /\ failed = "none" /\ ReadTo' = ReadTo /\ ChunkStart' = ChunkStart
  BY DEF IInv, Types, Reads, ReadFails, ReadTo, ChunkStart
<1>3. Reads'
  BY <1>2, FileTypes DEF IInv, Types, Reads, ReadFails
<1>4. InLine'
  BY <1>2 DEF IInv, InLine, ReadFails, IsRun, RunEnd
<1>5. Fits'
  BY DEF IInv, Fits, ReadFails, Used
<1>6. Handles'
  <2>1. Position' = Position
    BY <1>2 DEF Position, Front, ReadFails, consumerVars
  <2>2. /\ ReadTo' >= ReadTo /\ Len(ring') >= Len(ring) /\ \A i \in 1..Len(ring) : ring'[i] = ring[i]
    BY <1>2 DEF IInv, Types, ReadTo, ReadFails
  <2> QED BY <1>1, <2>1, <2>2, CallerUntouched DEF ReadFails
<1>7. Ends'
  BY DEF IInv, Types, Ends, ReadFails, consumerVars
<1> QED BY <1>1, <1>3, <1>4, <1>5, <1>6, <1>7 DEF IInv

\* Publishing the open chunk moves the boundary between ring and chunk.
LEMMA Published ==
  ASSUME IInv, Types', UNCHANGED <<file, consumerVars>>,
         chunk /= << >>, chunk' = << >>, ring' = Append(ring, chunk),
         Len(ring) < Slots, producer' /= "fill",
         ChunkStart' = ChunkStart + Len(chunk), ReadTo' >= ReadTo
  PROVE  InLine' /\ Fits' /\ Handles'
<1>1. /\ chunk \in Seq(Nat \ {0}) /\ Len(chunk) \in Nat /\ Len(chunk) > 0
      /\ ring \in Seq(Seq(Nat \ {0})) /\ Len(ring) \in Nat /\ Slots \in Nat
      /\ ChunkStart \in Int /\ file' = file
  <2>1. Types
    BY DEF IInv
  <2>2. Len(chunk) > 0
    BY <2>1, ChunkTypes, EmptySeq
  <2> QED BY <2>1, <2>2, ChunkTypes, FileTypes
<1>2. /\ chunk[1] = ChunkStart /\ ChunkStart > 0 /\ ChunkStart' > ChunkStart
      /\ \A k \in 1..Len(chunk) : chunk[k] = ChunkStart + (k - 1)
  <2>1. ChunkStart > 0 /\ \A k \in 1..Len(chunk) : chunk[k] = ChunkStart + (k - 1)
    BY DEF IInv, InLine
  <2>2. 1 \in 1..Len(chunk) /\ ChunkStart \in Int
    BY <1>1
  <2>3. chunk[1] = ChunkStart
    BY <2>1, <2>2
  <2>4. ChunkStart' > ChunkStart
    BY <1>1
  <2> QED BY <2>1, <2>3, <2>4
<1>3. /\ Len(ring') = Len(ring) + 1 /\ ring'[Len(ring) + 1] = chunk
      /\ \A i \in 1..Len(ring) : ring'[i] = ring[i]
  BY <1>1
<1>4. IsRun(chunk) /\ RunEnd(chunk) = ChunkStart'
  BY <1>1, <1>2 DEF IsRun, RunEnd
<1>5. InLine'
  <2>1. ChunkStart' > 0 /\ Len(chunk') = 0
    BY <1>1, <1>2
  <2>2. ASSUME NEW i \in 1..Len(ring')
        PROVE  /\ ring'[i] /= << >> /\ IsRun(ring'[i])
               /\ RunEnd(ring'[i]) = IF i < Len(ring') THEN ring'[i + 1][1] ELSE ChunkStart'
               /\ RunEnd(ring'[i]) <= ChunkStart'
    <3>1. CASE i = Len(ring) + 1
      <4>1. ring'[i] = chunk /\ ~(i < Len(ring'))
        BY <1>1, <1>3, <3>1
      <4>2. RunEnd(chunk) <= ChunkStart'
        BY <1>1, <1>4
      <4> QED BY <1>4, <4>1, <4>2
    <3>2. CASE i \in 1..Len(ring)
      <4>1. /\ ring'[i] = ring[i] /\ ring[i] /= << >> /\ IsRun(ring[i])
            /\ RunEnd(ring[i]) <= ChunkStart
            /\ RunEnd(ring[i]) = IF i < Len(ring) THEN ring[i + 1][1] ELSE ChunkStart
        BY <1>3, <3>2 DEF IInv, InLine
      <4>2. ring'[i + 1][1] = IF i < Len(ring) THEN ring[i + 1][1] ELSE ChunkStart
        <5>1. CASE i = Len(ring)
          BY <1>1, <1>2, <1>3, <5>1
        <5>2. CASE i < Len(ring)
          <6>1. i + 1 \in 1..Len(ring)
            BY <1>1, <3>2, <5>2
          <6>2. ring'[i + 1] = ring[i + 1]
            BY <1>3, <6>1
          <6> QED BY <5>2, <6>2
        <5> QED BY <1>1, <3>2, <5>1, <5>2
      <4>3. RunEnd(ring[i]) \in Int
        <5>1. i \in 1..Len(ring) /\ Types
          BY <1>1, <3>2 DEF IInv
        <5>2. ring[i] \in Seq(Nat \ {0}) /\ Len(ring[i]) \in Nat
          BY <5>1, ChunkTypes
        <5>3. ring[i][1] \in Nat
          BY <4>1, <5>2, EmptySeq
        <5> QED BY <5>2, <5>3 DEF RunEnd
      <4>4. i < Len(ring')
        BY <1>1, <1>3, <3>2
      <4>5. RunEnd(ring[i]) <= ChunkStart'
        BY <1>1, <1>2, <4>1, <4>3
      <4> QED BY <4>1, <4>2, <4>4, <4>5
    <3> QED BY <1>1, <1>3, <3>1, <3>2
  <2> QED BY <2>1, <2>2 DEF InLine, IsRun, RunEnd
<1>6. Fits'
  <2>1. Used(<< >>) <= ChunkBytes
    BY UsedEmpty, FileTypes DEF IInv
  <2>2. ASSUME NEW k \in 1..Len(ring') PROVE Used(ring'[k]) <= ChunkBytes
    BY <1>1, <1>3 DEF IInv, Fits
  <2>3. Len(ring') <= Slots
    BY <1>1, <1>3
  <2> QED BY <1>1, <2>1, <2>2, <2>3 DEF Fits, Used
<1>7. Position' = Position
  <2>1. /\ 1 \in 1..(Len(ring) + 1) /\ (consumer = "walk" => slot \in 1..(Len(ring) + 1))
        /\ consumer' = consumer /\ slot' = slot /\ walked' = walked
    BY <1>1 DEF IInv, Types, Handles, consumerVars
  <2>2. ASSUME NEW i \in 1..(Len(ring) + 1)
        PROVE  (IF i <= Len(ring') THEN ring'[i][1] ELSE ChunkStart') = Front(i)
    BY <1>1, <1>2, <1>3 DEF Front
  <2> QED BY <2>1, <2>2 DEF Front, Position
<1>8. Handles'
  BY <1>1, <1>3, <1>7, CallerUntouched
<1> QED BY <1>5, <1>6, <1>8

LEMMA ReadMessageInv == ASSUME IInv, ReadMessage PROVE IInv'
<1>0. /\ carry = 0 /\ failed = "none" /\ ReadTo = next /\ ReadTo' = next + 1
      /\ next \in Nat \ {0} /\ next <= Len(file) /\ Len(file) \in Nat
      /\ chunk \in Seq(Nat \ {0}) /\ Len(chunk) \in Nat /\ ChunkStart = next - Len(chunk)
      /\ ring \in Seq(Seq(Nat \ {0})) /\ Len(ring) \in Nat
      /\ file' = file /\ failed' = failed
  BY FileTypes DEF IInv, Types, Reads, ReadMessage, ReadTo, ChunkStart
<1>1. Types'
  <2>1. /\ Append(ring, chunk) \in Seq(Seq(Nat \ {0})) /\ Append(chunk, next) \in Seq(Nat \ {0})
        /\ << >> \in Seq(Nat \ {0})
    BY <1>0
  <2>2. chunk' \in Seq(Nat \ {0}) /\ ring' \in Seq(Seq(Nat \ {0})) /\ carry' \in Nat
        /\ producer' \in {"room", "fill"} /\ next' \in Nat \ {0}
    <3>1. /\ chunk' = << >> \/ chunk' = Append(chunk, next)
          /\ ring' = ring \/ ring' = Append(ring, chunk)
          /\ carry' = carry \/ carry' = next
          /\ producer' = producer \/ producer' = "room"
          /\ next' = next + 1 /\ producer = "fill"
      BY DEF ReadMessage
    <3>2. chunk' \in Seq(Nat \ {0}) /\ ring' \in Seq(Seq(Nat \ {0}))
      BY <1>0, <2>1, <3>1
    <3> QED BY <1>0, <3>1, <3>2
  <2> QED BY <1>0, <2>2 DEF IInv, Types, ReadMessage, consumerVars
<1>2. /\ Used(chunk) \in Nat /\ Bytes(next) \in 1..ChunkBytes
      /\ Used(chunk) + Bytes(next) <= ChunkBytes => Used(Append(chunk, next)) <= ChunkBytes
      /\ Used(chunk) + Bytes(next) > ChunkBytes => chunk /= << >>
  BY <1>0, UsedAppend DEF IInv, Fits
<1>3. Reads'
  BY <1>0 DEF IInv, Types, Reads, ReadMessage
<1>4. Ends'
  BY DEF IInv, Ends, ReadMessage, consumerVars
<1>5. CASE Used(chunk) + Bytes(next) > ChunkBytes
  <2>1. /\ carry' = next /\ ring' = Append(ring, chunk) /\ chunk' = << >>
        /\ producer' = "room"
    BY <1>5 DEF ReadMessage
  <2>2. ChunkStart' = ChunkStart + Len(chunk)
    BY <1>0, <2>1 DEF ChunkStart
  <2>3. /\ UNCHANGED <<file, consumerVars>> /\ Len(ring) < Slots /\ ReadTo' >= ReadTo
        /\ chunk /= << >> /\ producer' /= "fill"
    BY <1>0, <1>2, <1>5, <2>1 DEF IInv, Fits, ReadMessage
  <2>4. InLine' /\ Fits' /\ Handles'
    BY <1>1, <2>1, <2>2, <2>3, Published
  <2> QED BY <1>1, <1>3, <1>4, <2>4 DEF IInv
<1>6. CASE Used(chunk) + Bytes(next) <= ChunkBytes
  <2>1. /\ chunk' = Append(chunk, next) /\ UNCHANGED <<carry, ring, producer>>
    BY <1>2, <1>6, FileTypes DEF IInv, ReadMessage
  <2>2. /\ Len(chunk') = Len(chunk) + 1 /\ chunk'[Len(chunk) + 1] = next
        /\ \A k \in 1..Len(chunk) : chunk'[k] = chunk[k]
        /\ ChunkStart' = ChunkStart
    BY <1>0, <2>1 DEF ChunkStart
  <2>3. InLine'
    <3>1. ASSUME NEW k \in 1..Len(chunk') PROVE chunk'[k] = (ChunkStart') + (k - 1)
      <4>1. CASE k = Len(chunk) + 1
        BY <1>0, <2>2, <4>1
      <4>2. CASE k \in 1..Len(chunk)
        BY <1>0, <2>2, <4>2 DEF IInv, InLine
      <4>3. Len(chunk) \in Nat /\ k \in 1..(Len(chunk) + 1)
        BY <1>0, <2>2
      <4>4. k = Len(chunk) + 1 \/ k \in 1..Len(chunk)
        BY <4>3
      <4> QED BY <4>1, <4>2, <4>4
    <3> QED BY <2>1, <2>2, <3>1 DEF IInv, InLine, IsRun, RunEnd
  <2>4. Fits'
    BY <1>0, <1>2, <1>6, <2>1 DEF IInv, Fits, Used
  <2>5. Handles'
    <3>1. Position' = Position
      BY <2>1, <2>2 DEF Position, Front, ReadMessage, consumerVars
    <3> QED BY <1>0, <1>1, <2>1, <3>1, CallerUntouched DEF ReadMessage
  <2> QED BY <1>1, <1>3, <1>4, <2>3, <2>4, <2>5 DEF IInv
<1> QED BY <1>2, <1>5, <1>6, FileTypes DEF IInv

LEMMA ReadEndInv == ASSUME IInv, ReadEnd PROVE IInv'
<1>0. /\ carry = 0 /\ failed = "none" /\ next = Len(file) + 1 /\ producer' = "finish"
      /\ Len(ring) < Slots /\ UNCHANGED <<file, next, carry, failed, consumerVars>>
      /\ chunk \in Seq(Nat \ {0}) /\ ring \in Seq(Seq(Nat \ {0})) /\ chunk' = << >>
  BY FileTypes DEF IInv, Types, Reads, Fits, ReadEnd
<1>1. Types'
  <2>1. ring' \in Seq(Seq(Nat \ {0})) /\ chunk' \in Seq(Nat \ {0})
    <3>1. ring' = ring \/ ring' = Append(ring, chunk)
      BY DEF ReadEnd
    <3>2. Append(ring, chunk) \in Seq(Seq(Nat \ {0})) /\ << >> \in Seq(Nat \ {0})
      BY <1>0
    <3> QED BY <1>0, <3>1, <3>2
  <2> QED BY <1>0, <2>1 DEF IInv, Types, ReadEnd, consumerVars
<1>2. /\ ReadTo' = ReadTo /\ ReadTo \in Int /\ ChunkStart' = ChunkStart + Len(chunk)
  BY <1>0 DEF IInv, Types, ReadTo, ChunkStart
<1>3. Reads'
  BY <1>0, <1>2 DEF IInv, Types, Reads, ReadEnd
<1>4. Ends'
  BY <1>0 DEF IInv, Ends, ReadEnd, consumerVars
<1>5. CASE chunk /= << >>
  <2>1. ring' = Append(ring, chunk)
    BY <1>5 DEF ReadEnd
  <2> QED BY <1>0, <1>1, <1>2, <1>3, <1>4, <1>5, <2>1, Published DEF IInv
<1>6. CASE chunk = << >>
  <2>1. ring' = ring /\ chunk' = chunk /\ ChunkStart' = ChunkStart
    BY <1>0, <1>6 DEF ReadEnd, ChunkStart, ReadTo
  <2>2. InLine' /\ Fits'
    BY <1>0, <2>1 DEF IInv, InLine, Fits, IsRun, RunEnd, Used
  <2>3. Position' = Position
    BY <1>0, <2>1 DEF Position, Front, consumerVars
  <2>4. Handles'
    BY <1>0, <1>1, <1>2, <2>1, <2>3, CallerUntouched
  <2> QED BY <1>1, <1>3, <1>4, <2>2, <2>4 DEF IInv
<1> QED BY <1>5, <1>6

LEMMA SetDoneInv == ASSUME IInv, SetDone PROVE IInv'
<1>1. Types'
  BY DEF IInv, Types, SetDone, consumerVars
<1>2. ReadTo' = ReadTo /\ ChunkStart' = ChunkStart /\ Position' = Position
  BY DEF SetDone, ReadTo, ChunkStart, Position, Front, consumerVars
<1>3. Reads' /\ InLine' /\ Fits' /\ Ends'
  BY <1>2 DEF IInv, Reads, InLine, Fits, Ends, SetDone, IsRun, RunEnd, Used, consumerVars
<1>4. Handles'
  BY <1>2 DEF IInv, Handles, SetDone, consumerVars
<1> QED BY <1>1, <1>3, <1>4 DEF IInv

-----------------------------------------------------------------------------
(* The caller's steps.                                                     *)

\* What the producer has read and staged is not the caller's to change.
LEMMA ProducerUntouched ==
  ASSUME IInv, UNCHANGED <<file, producerVars>>
  PROVE  /\ Reads' /\ ReadTo' = ReadTo /\ ChunkStart' = ChunkStart
         /\ UNCHANGED ring => InLine' /\ Fits'
<1>1. ReadTo' = ReadTo /\ ChunkStart' = ChunkStart
  BY DEF producerVars, ReadTo, ChunkStart
<1> QED BY <1>1 DEF IInv, Reads, InLine, Fits, producerVars, IsRun, RunEnd, Used

\* What a step of the caller's that throws nothing must keep in its range.
LEMMA CallerTyped ==
  ASSUME Types, UNCHANGED <<file, producerVars, ring, caught, result>>,
         consumer' \in {"empty", "walk"} \/ consumer' = consumer,
         ready' \in 0..Slots, slot' \in 1..(ready' + 1), walked' \in Nat,
         handled' \in Seq(Nat \ {0})
  PROVE  Types'
BY DEF Types, producerVars

LEMMA PollInv == ASSUME IInv, Poll PROVE IInv'
<1>0. /\ UNCHANGED <<file, producerVars, ring, handled, caught, result>>
      /\ consumer = "poll" /\ Len(ring) \in 0..Slots /\ ring \in Seq(Seq(Nat \ {0}))
  BY FileTypes DEF IInv, Types, Fits, Poll
<1>1. Types'
  <2>1. CASE ring = << >>
    <3>1. consumer' = "empty" /\ ready' = ready /\ slot' = slot /\ walked' = walked
      BY <2>1 DEF Poll
    <3> QED BY <1>0, <3>1 DEF IInv, Types, producerVars
  <2>2. CASE ring /= << >>
    <3>1. consumer' = "walk" /\ ready' \in 1..Len(ring) /\ slot' = 1 /\ walked' = 0
      BY <2>2 DEF Poll
    <3>2. ready' \in 0..Slots /\ slot' \in 1..(ready' + 1) /\ walked' \in Nat
      <4>1. Slots \in Nat /\ Len(ring) \in Nat /\ Len(ring) <= Slots
        BY <1>0, FileTypes DEF IInv
      <4>2. \A l, n, r \in Nat : l <= n /\ r \in 1..l => r \in 0..n /\ 1 \in 1..(r + 1)
        OBVIOUS
      <4>3. ready' \in 1..Len(ring) /\ ready' \in Nat
        BY <3>1
      <4> QED BY <3>1, <4>1, <4>2, <4>3
    <3>3. /\ Types /\ UNCHANGED <<file, producerVars, ring, caught, result>>
          /\ handled' \in Seq(Nat \ {0})
      BY <1>0, ChunkTypes DEF IInv
    <3> QED BY <3>1, <3>2, <3>3, CallerTyped
  <2> QED BY <2>1, <2>2
<1>2. Reads' /\ InLine' /\ Fits' /\ ReadTo' = ReadTo /\ ChunkStart' = ChunkStart
  BY <1>0, ProducerUntouched
<1>3. Position' = Position
  <2>1. Front(1) \in Int
    BY <1>0, EmptySeq DEF Front, IInv, Types, InLine, ChunkStart, ReadTo
  <2> QED BY <1>0, <1>2, <2>1 DEF Poll, Position, Front
<1>4. Handles'
  <2>1. consumer' = "walk" => ready' <= Len(ring') /\ slot' = 1 /\ ready' >= 1 /\ walked' = 0
    BY <1>0 DEF Poll
  <2>2. consumer' = "walk" => Len(ring'[1]) >= 0
    BY <1>0, <2>1
  <2> QED BY <1>0, <1>2, <1>3, <2>1, <2>2 DEF IInv, Handles
<1>5. Ends'
  BY <1>0 DEF IInv, Ends, Poll, producerVars
<1> QED BY <1>1, <1>2, <1>4, <1>5 DEF IInv

LEMMA CheckDoneInv == ASSUME IInv, CheckDone PROVE IInv'
<1>0. /\ UNCHANGED <<file, producerVars, ring, ready, slot, walked, handled, caught, result>>
      /\ consumer = "empty" /\ consumer' \in {"join", "poll"}
      /\ consumer' = "join" => producer = "done" /\ ring = << >>
  BY DEF CheckDone
<1>1. Types'
  BY <1>0 DEF IInv, Types, producerVars
<1>2. Reads' /\ InLine' /\ Fits' /\ ReadTo' = ReadTo /\ ChunkStart' = ChunkStart
  BY <1>0, ProducerUntouched
<1>3. Position' = Position
  BY <1>0, <1>2 DEF Position, Front
<1>4. Handles'
  BY <1>0, <1>2, <1>3 DEF IInv, Handles
<1>5. Ends'
  BY <1>0 DEF IInv, Ends, producerVars
<1> QED BY <1>1, <1>2, <1>4, <1>5 DEF IInv

\* The message the walk stands at is the handler's next, and no defect the
\* producer would have thrown on.
LEMMA NextMessage ==
  ASSUME IInv, consumer = "walk", slot <= ready, walked < Len(ring[slot])
  PROVE  LET m == ring[slot][walked + 1]
         IN  /\ m = Len(handled) + 1 /\ m \in 1..Len(file) /\ m < ReadTo
             /\ file[m] \notin {"big", "cut"}
<1> DEFINE m == ring[slot][walked + 1]
<1>1. /\ Len(ring) \in Nat /\ ready \in 0..Len(ring) /\ slot \in 1..Len(ring) /\ walked \in Nat
      /\ ring[slot] \in Seq(Nat \ {0}) /\ Len(ring[slot]) \in Nat /\ walked + 1 \in 1..Len(ring[slot])
      /\ caught = "none" /\ Len(handled) \in Nat
  <2>1. Types /\ Handles /\ Ends
    BY DEF IInv
  <2>2. ready <= Len(ring) /\ slot \in 1..Len(ring)
    BY <2>1, ChunkTypes DEF Handles
  <2>3. ring[slot] \in Seq(Nat \ {0}) /\ Len(ring[slot]) \in Nat
    BY <2>1, <2>2, ChunkTypes
  <2>4. walked \in Nat /\ ready \in Nat /\ Len(ring) \in Nat /\ Len(handled) \in Nat
    BY <2>1, ChunkTypes
  <2>5. caught = "none"
    BY <2>1 DEF Ends
  <2>6. ready \in 0..Len(ring)
    BY <2>2, <2>4
  <2>7. walked + 1 \in 1..Len(ring[slot])
    BY <2>3, <2>4
  <2> QED BY <2>2, <2>3, <2>4, <2>5, <2>6, <2>7
<1>2. m = ring[slot][1] + walked /\ RunEnd(ring[slot]) <= ChunkStart
  <2>1. IsRun(ring[slot]) /\ RunEnd(ring[slot]) <= ChunkStart
    BY <1>1 DEF IInv, InLine
  <2>2. ring[slot][walked + 1] = ring[slot][1] + ((walked + 1) - 1)
    BY <1>1, <2>1 DEF IsRun
  <2>3. (walked + 1) - 1 = walked
    BY <1>1
  <2> QED BY <2>1, <2>2, <2>3
<1>3. m = Len(handled) + 1
  BY <1>1, <1>2 DEF IInv, Handles, Position, Front
<1>4. m < ChunkStart /\ ChunkStart \in Int
  <2>1. ring[slot][1] \in Int
    BY <1>1
  <2>2. ChunkStart \in Int
    BY DEF IInv, Types, ChunkStart, ReadTo
  <2> QED BY <1>1, <1>2, <2>1, <2>2 DEF RunEnd
<1>5. ChunkStart <= ReadTo /\ ReadTo <= Len(file) + 1 /\ ReadTo \in Int /\ Len(file) \in Nat
  <2>1. Len(chunk) \in Nat /\ Len(file) \in Nat /\ next \in Nat /\ carry \in Nat
    BY FileTypes, ChunkTypes DEF IInv
  <2>2. ReadTo <= Len(file) + 1 /\ ReadTo \in Int
    BY <2>1 DEF IInv, Reads, ReadTo
  <2>3. carry /= 0 => carry <= ReadTo
    BY <2>1 DEF IInv, Reads, ReadTo
  <2>4. ChunkStart <= ReadTo
    BY <2>1, <2>2, <2>3 DEF ChunkStart
  <2> QED BY <2>1, <2>2, <2>4
<1>6. m \in Nat \ {0} /\ m < ReadTo
  <2> HIDE DEF m
  <2> QED BY <1>1, <1>3, <1>4, <1>5
<1> QED BY <1>3, <1>5, <1>6 DEF IInv, Reads

LEMMA HandleMessageInv == ASSUME IInv, HandleMessage PROVE IInv'
<1> DEFINE m == ring[slot][walked + 1]
<1>0. /\ UNCHANGED <<file, producerVars, ring, ready, slot, result>>
      /\ consumer = "walk" /\ slot <= ready /\ walked < Len(ring[slot])
  BY DEF HandleMessage
<1>1. /\ m = Len(handled) + 1 /\ m \in 1..Len(file) /\ m < ReadTo /\ file[m] \notin {"big", "cut"}
  BY <1>0, NextMessage
<1>2. Reads' /\ InLine' /\ Fits' /\ ReadTo' = ReadTo /\ ChunkStart' = ChunkStart
  BY <1>0, ProducerUntouched
<1>3. /\ handled \in Seq(Nat \ {0}) /\ Len(handled) \in Nat /\ walked \in Nat /\ Len(file) \in Nat
      /\ ring \in Seq(Seq(Nat \ {0})) /\ ready \in 0..Len(ring) /\ Len(ring) \in Nat
      /\ ring[slot] \in Seq(Nat \ {0}) /\ Len(ring[slot]) \in Nat
      /\ caught = "none"
  <2>1. handled \in Seq(Nat \ {0}) /\ Len(handled) \in Nat /\ walked \in Nat /\ Len(file) \in Nat
    BY FileTypes, ChunkTypes DEF IInv
  <2>2. ring \in Seq(Seq(Nat \ {0})) /\ ready \in 0..Len(ring) /\ Len(ring) \in Nat /\ slot \in 1..Len(ring)
    BY <1>0, ChunkTypes DEF IInv, Handles
  <2>3. ring[slot] \in Seq(Nat \ {0}) /\ Len(ring[slot]) \in Nat
    BY <2>2, ChunkTypes DEF IInv
  <2>4. caught = "none"
    BY <1>0 DEF IInv, Ends
  <2> QED BY <2>1, <2>2, <2>3, <2>4
<1>4. CASE file[m] = "wrong"
  <2>1. caught' = "wrong" /\ consumer' = "drain" /\ UNCHANGED <<walked, handled>>
    BY <1>4 DEF HandleMessage
  <2>2. Types'
    BY <1>0, <2>1 DEF IInv, Types, producerVars
  <2>3. Handles'
    BY <1>0, <1>2, <2>1 DEF IInv, Handles
  <2>4. Ends'
    BY <1>0, <1>1, <1>4, <2>1 DEF IInv, Ends, producerVars
  <2> QED BY <1>2, <2>2, <2>3, <2>4 DEF IInv
<1>5. CASE file[m] /= "wrong"
  <2>1. handled' = Append(handled, m) /\ walked' = walked + 1 /\ UNCHANGED <<caught, consumer>>
    BY <1>5 DEF HandleMessage
  <2>2. /\ handled' \in Seq(Nat \ {0}) /\ Len(handled') = Len(handled) + 1
        /\ handled'[Len(handled) + 1] = m
        /\ \A k \in 1..Len(handled) : handled'[k] = handled[k]
    BY <1>1, <1>3, <2>1
  <2>3. Types'
    <3>1. ready' \in 0..Slots /\ slot' \in 1..(ready' + 1)
      BY <1>0 DEF IInv, Types
    <3> QED BY <1>0, <1>3, <2>1, <2>2, <3>1, CallerTyped DEF IInv
  <2>4. Position' = Position + 1
    <3>1. Position = ring[slot][1] + walked /\ Position' = ring[slot][1] + (walked + 1)
      BY <1>0, <1>3, <2>1 DEF Position, Front, IInv, Types
    <3>2. ring[slot] /= << >> /\ slot \in 1..Len(ring)
      BY <1>0, <1>3 DEF IInv, InLine, Types
    <3>3. ring[slot][1] \in Int
      BY <1>3, <3>2, EmptySeq
    <3>4. walked \in Int
      BY <1>3
    <3> QED BY <3>1, <3>3, <3>4
  <2>5. Handles'
    <3>1. ASSUME NEW k \in 1..Len(handled')
          PROVE  handled'[k] = k /\ k < ReadTo' /\ file'[k] /= "wrong"
      <4>1. CASE k = Len(handled) + 1
        BY <1>0, <1>1, <1>2, <1>5, <2>2, <4>1
      <4>2. CASE k \in 1..Len(handled)
        BY <1>0, <1>2, <2>2, <4>2 DEF IInv, Handles
      <4>3. k = Len(handled) + 1 \/ k \in 1..Len(handled)
        BY <1>3, <2>2
      <4> QED BY <4>1, <4>2, <4>3
    <3>2. Position' = Len(handled') + 1
      BY <1>3, <2>2, <2>4 DEF IInv, Handles
    <3>3. walked' <= Len(ring'[slot'])
      BY <1>0, <1>3, <2>1
    <3> QED BY <1>0, <1>3, <2>1, <3>1, <3>2, <3>3 DEF Handles
  <2>6. Ends'
    BY <1>0, <2>1 DEF IInv, Ends, producerVars
  <2> QED BY <1>2, <2>3, <2>5, <2>6 DEF IInv
<1> QED BY <1>4, <1>5

LEMMA NextChunkInv == ASSUME IInv, NextChunk PROVE IInv'
<1>0. /\ UNCHANGED <<file, producerVars, ring, consumer, ready, handled, caught, result>>
      /\ consumer = "walk" /\ slot <= ready /\ walked = Len(ring[slot])
      /\ slot' = slot + 1 /\ walked' = 0
  BY DEF NextChunk
<1>1. /\ Len(ring) \in Nat /\ ready \in 0..Len(ring) /\ slot \in 1..Len(ring)
      /\ ring \in Seq(Seq(Nat \ {0})) /\ caught = "none"
      /\ ring[slot] \in Seq(Nat \ {0}) /\ ring[slot] /= << >>
  BY <1>0 DEF IInv, Types, Handles, Ends, InLine
<1>2. Types'
  BY <1>0, <1>1 DEF IInv, Types, producerVars
<1>3. Reads' /\ InLine' /\ Fits' /\ ReadTo' = ReadTo /\ ChunkStart' = ChunkStart
  BY <1>0, ProducerUntouched
<1>4. Position' = Position
  <2>1. Position = ring[slot][1] + Len(ring[slot])
    BY <1>0, <1>1 DEF Position, Front
  <2>2. ring[slot][1] + Len(ring[slot]) =
          IF slot < Len(ring) THEN ring[slot + 1][1] ELSE ChunkStart
    BY <1>1 DEF IInv, InLine, RunEnd
  <2>3. slot < Len(ring) => ring[slot + 1][1] \in Int
    <3> SUFFICES ASSUME slot < Len(ring) PROVE ring[slot + 1][1] \in Int
      OBVIOUS
    <3>1. slot + 1 \in 1..Len(ring)
      BY <1>1
    <3>2. ring[slot + 1] \in Seq(Nat \ {0}) /\ ring[slot + 1] /= << >>
      BY <1>1, <3>1 DEF IInv, InLine
    <3> QED BY <3>2, EmptySeq
  <2>4. ChunkStart \in Int
    BY DEF IInv, Types, ChunkStart, ReadTo
  <2>5. Position' = IF slot < Len(ring) THEN ring[slot + 1][1] ELSE ChunkStart
    BY <1>0, <1>1, <1>3, <2>3, <2>4 DEF Position, Front
  <2> QED BY <2>1, <2>2, <2>5
<1>5. Handles'
  <2>1. slot' <= ready' => Len(ring'[slot']) >= 0
    BY <1>0, <1>1
  <2> QED BY <1>0, <1>3, <1>4, <2>1 DEF IInv, Handles
<1>6. Ends'
  BY <1>0 DEF IInv, Ends, producerVars
<1> QED BY <1>2, <1>3, <1>5, <1>6 DEF IInv

\* Giving slots back takes chunks from the front of the line.
LEMMA Consumed ==
  ASSUME IInv, UNCHANGED <<file, producerVars>>, NEW n \in 0..Len(ring),
         ring' = SubSeq(ring, n + 1, Len(ring))
  PROVE  /\ ring' \in Seq(Seq(Nat \ {0})) /\ Reads' /\ InLine' /\ Fits'
         /\ ReadTo' = ReadTo /\ ChunkStart' = ChunkStart
         /\ Len(ring') = Len(ring) - n
         /\ Len(ring') > 0 => ring'[1] = ring[n + 1]
<1>1. /\ ring \in Seq(Seq(Nat \ {0})) /\ Len(ring) \in Nat /\ Slots \in Nat
  BY FileTypes DEF IInv, Types
<1>2. /\ ring' \in Seq(Seq(Nat \ {0})) /\ Len(ring') = Len(ring) - n
      /\ \A i \in 1..(Len(ring) - n) : ring'[i] = ring[i + n]
  BY <1>1
<1>3. Reads' /\ ReadTo' = ReadTo /\ ChunkStart' = ChunkStart
  BY ProducerUntouched
<1>4. InLine'
  <2>1. ASSUME NEW i \in 1..Len(ring')
        PROVE  /\ ring'[i] /= << >> /\ IsRun(ring'[i])
               /\ RunEnd(ring'[i]) = IF i < Len(ring') THEN ring'[i + 1][1] ELSE ChunkStart
               /\ RunEnd(ring'[i]) <= ChunkStart
    <3>0. i \in 1..(Len(ring) - n)
      BY <1>2
    <3>1. i + n \in 1..Len(ring) /\ ring'[i] = ring[i + n] /\ (i < Len(ring') <=> i + n < Len(ring))
      BY <1>1, <1>2, <3>0
    <3>2. ASSUME i < Len(ring') PROVE ring'[i + 1] = ring[(i + n) + 1]
      <4>1. i + 1 \in 1..(Len(ring) - n) /\ (i + 1) + n = (i + n) + 1
        BY <1>1, <1>2, <3>0, <3>2
      <4>2. ring'[i + 1] = ring[(i + 1) + n]
        BY <1>2, <4>1
      <4> QED BY <4>1, <4>2
    <3> QED BY <3>1, <3>2 DEF IInv, InLine
  <2> QED BY <1>3, <2>1 DEF IInv, InLine, producerVars, IsRun, RunEnd
<1>5. Fits'
  <2>1. ASSUME NEW i \in 1..Len(ring') PROVE Used(ring'[i]) <= ChunkBytes
    <3>0. i \in 1..(Len(ring) - n)
      BY <1>2
    <3>1. i + n \in 1..Len(ring) /\ ring'[i] = ring[i + n]
      BY <1>1, <1>2, <3>0
    <3> QED BY <3>1 DEF IInv, Fits
  <2>2. Len(ring') <= Slots /\ (producer = "fill" => Len(ring') < Slots)
    BY <1>1, <1>2 DEF IInv, Fits
  <2> QED BY <2>1, <2>2 DEF IInv, Fits, producerVars, Used
<1> QED BY <1>1, <1>2, <1>3, <1>4, <1>5

LEMMA ConsumeBatchInv == ASSUME IInv, ConsumeBatch PROVE IInv'
<1>0. /\ UNCHANGED <<file, producerVars, ready, slot, walked, handled, caught, result>>
      /\ consumer = "walk" /\ slot > ready /\ consumer' = "poll"
      /\ ring' = SubSeq(ring, ready + 1, Len(ring))
  BY DEF ConsumeBatch
<1>1. /\ Len(ring) \in Nat /\ ready \in 0..Len(ring) /\ slot = ready + 1 /\ walked = 0
      /\ caught = "none"
  BY <1>0 DEF IInv, Types, Handles, Ends
<1>2. /\ ring' \in Seq(Seq(Nat \ {0})) /\ Reads' /\ InLine' /\ Fits'
      /\ ReadTo' = ReadTo /\ ChunkStart' = ChunkStart
      /\ Len(ring') = Len(ring) - ready
      /\ Len(ring') > 0 => ring'[1] = ring[ready + 1]
  BY <1>0, <1>1, Consumed
<1>3. Types'
  BY <1>0, <1>2 DEF IInv, Types, producerVars
<1>4. Position' = Position
  <2>1. Position' = IF Len(ring') > 0 THEN ring[ready + 1][1] ELSE ChunkStart
    BY <1>0, <1>1, <1>2 DEF Position, Front
  <2>2. Position = Position' + 0
    BY <1>0, <1>1, <1>2, <2>1 DEF Position, Front
  <2>3. Position = Len(handled) + 1 /\ Len(handled) \in Nat
    BY <1>1 DEF IInv, Handles, Types
  <2>4. ready < Len(ring) => ring[ready + 1][1] \in Int
    <3> SUFFICES ASSUME ready < Len(ring) PROVE ring[ready + 1][1] \in Int
      OBVIOUS
    <3>1. ring[ready + 1] \in Seq(Nat \ {0}) /\ ring[ready + 1] /= << >>
      BY <1>1 DEF IInv, Types, InLine
    <3> QED BY <3>1, EmptySeq
  <2>5. ChunkStart \in Int
    BY DEF IInv, Types, ChunkStart, ReadTo
  <2> QED BY <1>1, <1>2, <2>1, <2>2, <2>4, <2>5
<1>5. Handles'
  BY <1>0, <1>2, <1>4 DEF IInv, Handles
<1>6. Ends'
  BY <1>0 DEF IInv, Ends, producerVars
<1> QED BY <1>2, <1>3, <1>5, <1>6 DEF IInv

LEMMA DrainInv == ASSUME IInv, Drain PROVE IInv'
<1>0. /\ UNCHANGED <<file, producerVars, ready, slot, walked, handled, caught, result>>
      /\ consumer = "drain" /\ consumer' \in {"join", "drain"}
      /\ consumer' = "join" => producer = "done"
  BY DEF Drain
<1>1. PICK n \in 0..Len(ring) : ring' = SubSeq(ring, n + 1, Len(ring))
  BY DEF Drain
<1>2. /\ ring' \in Seq(Seq(Nat \ {0})) /\ Reads' /\ InLine' /\ Fits' /\ ReadTo' = ReadTo
  BY <1>0, <1>1, Consumed
<1>3. caught = "wrong"
  BY <1>0 DEF IInv, Ends
<1>4. Types'
  BY <1>0, <1>2 DEF IInv, Types, producerVars
<1>5. Handles'
  BY <1>0, <1>2, <1>3 DEF IInv, Handles
<1>6. Ends'
  BY <1>0, <1>3 DEF IInv, Ends, producerVars
<1> QED BY <1>2, <1>4, <1>5, <1>6 DEF IInv

LEMMA ReturnInv == ASSUME IInv, Return PROVE IInv'
<1>0. /\ UNCHANGED <<file, producerVars, ring, ready, slot, walked, handled, caught>>
      /\ consumer = "join" /\ consumer' = "returned" /\ producer = "done"
      /\ result' = IF caught /= "none" THEN caught ELSE IF failed /= "none" THEN failed ELSE "ok"
  BY DEF Return
<1>1. Types'
  BY <1>0 DEF IInv, Types, producerVars
<1>2. Reads' /\ InLine' /\ Fits' /\ ReadTo' = ReadTo /\ ChunkStart' = ChunkStart
  BY <1>0, ProducerUntouched
<1>3. Position' = Position
  BY <1>0, <1>2 DEF Position, Front
<1>4. Handles'
  BY <1>0, <1>2, <1>3 DEF IInv, Handles
<1>5. Ends'
  BY <1>0 DEF IInv, Ends, producerVars
<1> QED BY <1>1, <1>2, <1>4, <1>5 DEF IInv

-----------------------------------------------------------------------------
(* Theorems.                                                               *)

LEMMA StepInv == ASSUME IInv, [Next]_vars PROVE IInv'
<1>1. CASE Next
  BY <1>1, BeginChunkInv, ReadFailsInv, ReadMessageInv, ReadEndInv, SetDoneInv, PollInv,
     CheckDoneInv, HandleMessageInv, NextChunkInv, ConsumeBatchInv, DrainInv, ReturnInv DEF Next
<1>2. CASE UNCHANGED vars
  <2>1. /\ UNCHANGED <<file, producerVars, ring>> /\ UNCHANGED consumerVars
    BY <1>2 DEF vars
  <2>2. Reads' /\ InLine' /\ Fits' /\ ReadTo' = ReadTo /\ ChunkStart' = ChunkStart
    BY <2>1, ProducerUntouched
  <2>3. Position' = Position
    BY <2>1, <2>2 DEF Position, Front, consumerVars
  <2>4. Types' /\ Handles' /\ Ends'
    BY <2>1, <2>2, <2>3 DEF IInv, Types, Handles, Ends, producerVars, consumerVars
  <2> QED BY <2>2, <2>4 DEF IInv
<1> QED BY <1>1, <1>2

LEMMA Invariant == Spec => []IInv
<1>1. Init => IInv
  BY InitInv
<1>2. IInv /\ [Next]_vars => IInv'
  BY StepInv
<1> QED BY <1>1, <1>2, PTL DEF Spec

\* When the call has returned normally the line holds nothing but the file.
LEMMA InvReads == IInv => ReadsTheFile
<1> SUFFICES ASSUME IInv PROVE ReadsTheFile
  OBVIOUS
<1>0. /\ Len(file) \in Nat /\ Len(handled) \in Nat /\ next \in Nat \ {0}
      /\ next <= Len(file) + 1 /\ ReadTo <= next /\ ReadTo \in Nat
  BY FileTypes DEF IInv, Types, Reads, ReadTo
<1>1. \A k \in 1..Len(handled) : k \in 1..Len(file) /\ k \notin Defects
  <2> SUFFICES ASSUME NEW k \in 1..Len(handled) PROVE k \in 1..Len(file) /\ k \notin Defects
    OBVIOUS
  <2>1. k < ReadTo /\ file[k] /= "wrong"
    BY DEF IInv, Handles
  <2>2. k \in 1..Len(file)
    BY <1>0, <2>1
  <2>3. file[k] \notin {"big", "cut"}
    BY <2>1, <2>2 DEF IInv, Reads
  <2> QED BY <2>1, <2>2, <2>3 DEF Defects
<1>2. \A i \in Defects : Len(handled) < i
  <2> SUFFICES ASSUME NEW i \in Defects, ~(Len(handled) < i) PROVE FALSE
    OBVIOUS
  <2>1. i \in 1..Len(file)
    BY DEF Defects, Messages
  <2>2. i \in 1..Len(handled)
    BY <1>0, <2>1
  <2> QED BY <1>1, <2>2
<1>3. InOrder
  BY <1>2 DEF InOrder, IInv, Handles, Fits
<1>4. ASSUME result = "ok" PROVE Defects = {} /\ Len(handled) = Len(file)
  <2>1. caught = "none" /\ failed = "none" /\ consumer = "returned"
    BY <1>4 DEF IInv, Types, Ends
  <2>2. producer = "done" /\ ring = << >>
    BY <2>1 DEF IInv, Ends
  <2>3. next = Len(file) + 1 /\ chunk = << >> /\ carry = 0
    BY <2>1, <2>2 DEF IInv, Reads
  <2>4. Position = Len(file) + 1
    BY <1>0, <2>1, <2>2, <2>3 DEF Position, Front, ChunkStart, ReadTo
  <2>5. Len(handled) = Len(file)
    BY <1>0, <2>1, <2>4 DEF IInv, Handles
  <2> QED BY <1>1, <2>5 DEF Defects, Messages
<1>5. ASSUME result \notin {"none", "ok"} PROVE \E i \in Defects : file[i] = result
  <2>1. result = caught \/ result = failed
    BY <1>5 DEF IInv, Ends
  <2>2. CASE result = caught
    BY <1>5, <2>2 DEF IInv, Types, Ends, Defects, Messages
  <2>3. CASE result = failed
    <3>1. next - 1 \in 1..Len(file) /\ file[next - 1] = failed
      BY <1>0, <1>5, <2>3 DEF IInv, Reads
    <3>2. failed \in {"big", "cut"}
      BY <1>5, <2>3 DEF IInv, Types
    <3> QED BY <2>3, <3>1, <3>2 DEF Defects, Messages
  <2> QED BY <2>1, <2>2, <2>3
<1> QED BY <1>3, <1>4, <1>5 DEF ReadsTheFile, HonestReturn

\* For every set of files, every chunk size and every number of slots: the
\* handler sees the file in order, each message once and none at or beyond
\* the first defect, a normal return has handled all of it, and an error that
\* reaches the caller is one the file holds (parse_threaded).
THEOREM ReaderReadsTheFile == Spec => []ReadsTheFile
BY Invariant, InvReads, PTL

=============================================================================
