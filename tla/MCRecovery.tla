------------------------------ MODULE MCRecovery ------------------------------
(***************************************************************************)
(* Two branches over one block.  S1 creates out1.  On the A branch A2      *)
(* makes out2 from out1; on the B branch B3 makes out2 from out1 and out3  *)
(* from out2 in one block, so that out2 is a coin of another height.       *)
(*                                                                         *)
(*   G -- S1 -- A2                                                         *)
(*          \-- B2 -- B3                                                   *)
(***************************************************************************)
EXTENDS Recovery, TLC

CONSTANTS G, S1, A2, B2, B3, out1, out2, out3

MCBlock == {G, S1, A2, B2, B3}
MCParent == (S1 :> G) @@ (A2 :> S1) @@ (B2 :> S1) @@ (B3 :> B2)

Tx(ins, outs) == [coinbase |-> FALSE, ins |-> ins, outs |-> outs]
Reward(outs)  == [coinbase |-> TRUE,  ins |-> {},  outs |-> outs]

MCVtx == (G  :> <<>>)
      @@ (S1 :> <<Reward({out1})>>)
      @@ (A2 :> <<Reward({}), Tx({out1}, {out2})>>)
      @@ (B2 :> <<Reward({})>>)
      @@ (B3 :> <<Reward({}), Tx({out1}, {out2}), Tx({out2}, {out3})>>)

MCOutPoint == {out1, out2, out3}
MCCoin == 1..3

MCNoMweb == {}
MCMweb == {A2, B2, B3}
=============================================================================
