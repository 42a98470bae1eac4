------------------------------ MODULE Ancestry ------------------------------
(***************************************************************************)
(* The tree of block headers: pprev, nHeight and the operations of CChain  *)
(* and CBlockIndex that follow them (src/chain.h, src/chain.cpp).          *)
(***************************************************************************)
EXTENDS Integers

CONSTANTS
    Block,      \* the blocks of the tree
    Genesis,
    NoBlock,    \* a null pointer or hash
    Parent      \* pprev: [Block \ {Genesis} -> Block]

ASSUME AncestryAssumption ==
    /\ NoBlock \notin Block /\ Genesis \in Block
    /\ \A b \in Block \ {Genesis} : Parent[b] \in Block

\* Every block descends from Genesis: a set with Genesis and the children of its
\* members is the whole tree.
ASSUME TreeAssumption ==
    \A S \in SUBSET Block :
        Genesis \in S /\ (\A b \in Block \ {Genesis} : Parent[b] \in S => b \in S)
            => S = Block

Height[b \in Block] == IF b = Genesis THEN 0 ELSE 1 + Height[Parent[b]]

\* The blocks from b down to Genesis.
Ancestors[b \in Block] ==
    IF b = Genesis THEN {b} ELSE {b} \cup Ancestors[Parent[b]]

\* pprev of any block.
Prev(b) == IF b = Genesis THEN NoBlock ELSE Parent[b]

\* LastCommonAncestor(a, b), which is also CChain::FindFork of one of them in the
\* chain of the other.
LastCommonAncestor(a, b) ==
    CHOOSE c \in Ancestors[a] \cap Ancestors[b] :
        \A d \in Ancestors[a] \cap Ancestors[b] : Height[d] <= Height[c]

\* CBlockIndex::GetAncestor: a null pointer above the block or below Genesis.
GetAncestor(b, height) ==
    IF height \in 0..Height[b] THEN CHOOSE a \in Ancestors[b] : Height[a] = height
    ELSE NoBlock
=============================================================================
