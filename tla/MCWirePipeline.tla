--------------------------- MODULE MCWirePipeline ---------------------------
(***************************************************************************)
(* A small ring, so that a delivery outgrows its room, and enough sequence *)
(* numbers to fill it more than once.                                      *)
(***************************************************************************)
EXTENDS WirePipeline
=============================================================================
