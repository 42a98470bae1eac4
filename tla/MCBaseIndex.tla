---------------------------- MODULE MCBaseIndex ----------------------------
(***************************************************************************)
(* Two branches of two blocks from the genesis block.                      *)
(***************************************************************************)
EXTENDS BaseIndex, TLC

CONSTANTS G, A1, A2, B1, B2

MCParent == (A1 :> G) @@ (A2 :> A1) @@ (B1 :> G) @@ (B2 :> B1)
=============================================================================
