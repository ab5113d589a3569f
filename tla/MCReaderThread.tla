--------------------------- MODULE MCReaderThread ---------------------------
(***************************************************************************)
(* Every file of up to MaxMessages messages; a frame the file cuts short   *)
(* can only be its last.                                                   *)
(***************************************************************************)
EXTENDS ReaderThread

CONSTANT MaxMessages

AllFiles ==
  {f \in UNION {[1..n -> {"small", "large", "big", "wrong", "cut"}] : n \in 0..MaxMessages} :
     \A i \in 1..(Len(f) - 1) : f[i] /= "cut"}
=============================================================================
