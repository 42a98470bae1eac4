---------------------------- MODULE MCCheckQueue ----------------------------
(***************************************************************************)
(* Two workers and two threads that connect blocks.  Two batches of two    *)
(* let a lone worker take two checks at once.                              *)
(***************************************************************************)
EXTENDS CheckQueue

MCBatch == {<<>>, <<TRUE>>, <<TRUE, FALSE>>}
=============================================================================
