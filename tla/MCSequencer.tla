---------------------------- MODULE MCSequencer ----------------------------
(***************************************************************************)
(* The sequencer under every packet a header of these ranges can describe, *)
(* clipped anywhere, in any order, any number of times.                    *)
(***************************************************************************)
EXTENDS Sequencer
=============================================================================
