----------------------------- MODULE MCMempool -----------------------------
(***************************************************************************)
(* tT spends a coin, tM an extension block coin, tC an output of each, tG  *)
(* an output of tC, tR the output of tT that tC spends, tX another coin.   *)
(***************************************************************************)
EXTENDS Mempool

CONSTANTS tT, tM, tC, tG, tR, tX, k1, k2, k3

MCTx         == <<tT, tM, tC, tR, tG, tX>>
MCCoin       == {k1, k2, k3}
MCInputs     == (tT :> {<<k1, 0>>}) @@ (tM :> {<<k2, 0>>}) @@ (tC :> {<<tT, 0>>, <<tM, 0>>})
             @@ (tR :> {<<tT, 0>>}) @@ (tG :> {<<tC, 0>>}) @@ (tX :> {<<k3, 0>>})
MCMwebOutput == {<<k2, 0>>, <<tM, 0>>}
MCHasKernel  == {tM, tC}
MCMwebOnly   == {tM}
MCFee        == (tT :> 2) @@ (tM :> 3) @@ (tC :> 4) @@ (tR :> 16) @@ (tG :> 5) @@ (tX :> 4)
MCSize       == (tT :> 1) @@ (tM :> 1) @@ (tC :> 2) @@ (tR :> 1) @@ (tG :> 1) @@ (tX :> 1)
MCMinHeight  == (tT :> 1) @@ (tM :> 2) @@ (tC :> 1) @@ (tR :> 1) @@ (tG :> 1) @@ (tX :> 1)
MCReplaceable == {tC}
=============================================================================
