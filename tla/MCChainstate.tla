---------------------------- MODULE MCChainstate ----------------------------
(***************************************************************************)
(* Two branches from the genesis block, and a fork at the top of one.      *)
(*                                                                         *)
(*   G -- A1 -- A2 -- A3                                                   *)
(*     \     \-- C2                                                        *)
(*      \-- B1 -- B2 -- B3                                                 *)
(***************************************************************************)
EXTENDS Chainstate, TLC

CONSTANTS G, A1, A2, A3, B1, B2, B3, C2

MCParent == (A1 :> G) @@ (A2 :> A1) @@ (A3 :> A2) @@ (C2 :> A1)
            @@ (B1 :> G) @@ (B2 :> B1) @@ (B3 :> B2)
MCAddr == (G :> 0) @@ (A1 :> 3) @@ (A2 :> 1) @@ (A3 :> 6) @@ (C2 :> 4)
          @@ (B1 :> 2) @@ (B2 :> 5) @@ (B3 :> 7)
MCProof == [b \in {G, A1, A2, A3, B1, B2, B3, C2} |-> 1]
MCMinSequenceId == -2
=============================================================================
