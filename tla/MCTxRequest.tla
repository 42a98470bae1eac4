---------------------------- MODULE MCTxRequest ----------------------------
(***************************************************************************)
(* Three peers, two transactions.  The first peer is preferred and may     *)
(* announce without limit; the last is neither.                            *)
(***************************************************************************)
EXTENDS TxRequest

CONSTANTS p1, p2, p3, hashA, hashB

MCPeer      == {p1, p2, p3}
MCTxHash    == {hashA, hashB}
MCPreferred == {p1}
MCRelay     == {p1}
MCSalted    == (<<p1, hashA>> :> 1) @@ (<<p2, hashA>> :> 3) @@ (<<p3, hashA>> :> 2)
            @@ (<<p1, hashB>> :> 1) @@ (<<p2, hashB>> :> 2) @@ (<<p3, hashB>> :> 3)
=============================================================================
