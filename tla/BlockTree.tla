------------------------------ MODULE BlockTree ------------------------------
(***************************************************************************)
(* The block index: BlockManager and the part of CChainState that decides  *)
(* which blocks are candidates for the tip (src/validation.cpp), as        *)
(* operators on one record.                                                *)
(*                                                                         *)
(* A block is a member of Block; its header fields that never change       *)
(* (pprev, work, address of its CBlockIndex) are constants.  The fields    *)
(* that do change are those of an index record x:                          *)
(*                                                                         *)
(*   known        m_block_index                                            *)
(*   processed    nTx > 0, the same as BLOCK_VALID_TRANSACTIONS            *)
(*   data         BLOCK_HAVE_DATA                                          *)
(*   linked       HaveTxsDownloaded(), nChainTx # 0                        *)
(*   scripts      BLOCK_VALID_SCRIPTS                                      *)
(*   failed       BLOCK_FAILED_VALID and BLOCK_FAILED_CHILD, per block     *)
(*   seq          nSequenceId, per block                                   *)
(*   unlinked     m_blocks_unlinked, each pair named by its child          *)
(*   failedBlocks m_failed_blocks                                          *)
(*   candidates   setBlockIndexCandidates                                  *)
(*   tip          m_chain.Tip(); the active chain is its ancestors         *)
(*                                                                         *)
(* Left out: pindexBestHeader, pindexBestInvalid and the fork warnings,    *)
(* which nothing modelled here reads.                                      *)
(***************************************************************************)
EXTENDS Ancestry, FiniteSets

CONSTANTS
    Proof,      \* GetBlockProof: [Block -> Nat \ {0}]
    Addr        \* the order of the CBlockIndex addresses: [Block -> Nat]

ASSUME ProofAssumption == \A b \in Block : Proof[b] \in Nat \ {0}

ASSUME AddrAssumption ==
    /\ \A b \in Block : Addr[b] \in Nat
    /\ \A a, b \in Block : Addr[a] = Addr[b] => a = b

\* nChainWork
Work[b \in Block] == Proof[b] + (IF b = Genesis THEN 0 ELSE Work[Parent[b]])

FailedMask == {"VALID", "CHILD"}

\* m_chain.Contains
Chain(x) == IF x.tip = NoBlock THEN {} ELSE Ancestors[x.tip]

\* CBlockIndexWorkComparator: a sorts before b.
Worse(x, a, b) ==
    \/ Work[a] < Work[b]
    \/ Work[a] = Work[b] /\ x.seq[a] > x.seq[b]
    \/ Work[a] = Work[b] /\ x.seq[a] = x.seq[b] /\ Addr[a] > Addr[b]

\* IsValid(BLOCK_VALID_TRANSACTIONS) && HaveTxsDownloaded()
Eligible(x, b) == b \in x.processed /\ b \in x.linked /\ x.failed[b] = {}

MarkFailed(x, blocks, flag) ==
    [x EXCEPT !.failed = [b \in Block |-> IF b \in blocks THEN @[b] \cup {flag} ELSE @[b]]]

-----------------------------------------------------------------------------
(* Headers and blocks arrive *)

\* The failed block an unvalidated parent descends from, per AcceptBlockHeader.
FailedAncestors(x, prev) ==
    IF prev \in x.scripts /\ x.failed[prev] = {} THEN {}
    ELSE x.failedBlocks \cap Ancestors[prev]

\* AcceptBlockHeader says yes.
HeaderAccepted(x, b) ==
    IF b \in x.known THEN x.failed[b] = {}
    ELSE /\ Parent[b] \in x.known
         /\ x.failed[Parent[b]] = {}
         /\ FailedAncestors(x, Parent[b]) = {}

\* AcceptBlockHeader: a new header enters the index; the descendants of a
\* failed block are marked as they are met.
AcceptBlockHeader(x, b) ==
    IF b \in x.known \/ Parent[b] \notin x.known \/ x.failed[Parent[b]] # {} THEN x
    ELSE LET bad == FailedAncestors(x, Parent[b]) IN
         IF bad = {} THEN [x EXCEPT !.known = @ \cup {b}]
         ELSE LET f == CHOOSE f \in bad : \A g \in bad : Addr[f] <= Addr[g]
              IN MarkFailed(x, Ancestors[Parent[b]] \ Ancestors[f], "CHILD")

\* Faulty NewlyLinked: the descendants that waited are forgotten.
NewlyLinked_OnlyItself(x, b) ==
    IF b # Genesis /\ Parent[b] \notin x.linked THEN {} ELSE {b}

\* The blocks ReceivedBlockTransactions(b) links: b, if its parent is linked, and
\* the descendants that waited in m_blocks_unlinked for it.
NewlyLinked(x, b) ==
    IF b # Genesis /\ Parent[b] \notin x.linked THEN {}
    ELSE {d \in {b} \cup x.unlinked :
             b \in Ancestors[d] /\ Ancestors[d] \ Ancestors[b] \subseteq x.unlinked}

\* The sequence numbers they may get: breadth first from n on.
Numberings(blocks, n) ==
    {f \in [blocks -> n..(n + Cardinality(blocks) - 1)] :
        \A c, d \in blocks : /\ f[c] = f[d] => c = d
                             /\ Height[c] < Height[d] => f[c] < f[d]}

\* ReceivedBlockTransactions, given the numbering of the newly linked blocks.
ReceivedBlockTransactions(x, b, numbering) ==
    LET new  == DOMAIN numbering
        seqs == [c \in Block |-> IF c \in new THEN numbering[c] ELSE x.seq[c]]
        y    == [x EXCEPT !.processed = @ \cup {b},
                          !.data      = @ \cup {b},
                          !.linked    = (@ \ {b}) \cup new,
                          !.seq       = seqs]
    IN [y EXCEPT !.candidates = @ \cup {c \in new : x.tip = NoBlock \/ ~Worse(y, c, x.tip)},
                 !.unlinked   = IF new # {} THEN @ \ (new \ {b})
                                ELSE IF x.failed[Parent[b]] = {} THEN @ \cup {b} ELSE @]

-----------------------------------------------------------------------------
(* Candidates *)

PruneBlockIndexCandidates(x) ==
    [x EXCEPT !.candidates = {c \in @ : ~Worse(x, c, x.tip)}]

\* setBlockIndexCandidates.rbegin(): one block, or none of an empty set.
BestCandidates(x) == {c \in x.candidates : \A d \in x.candidates : ~Worse(x, c, d)}

\* Faulty Unusable: the failure flags are not looked at.
Unusable_DataOnly(x, c) == {a \in Ancestors[c] \ Chain(x) : a \notin x.data}

\* The blocks between the active chain and c that cannot be connected.
Unusable(x, c) ==
    {a \in Ancestors[c] \ Chain(x) : x.failed[a] # {} \/ a \notin x.data}

\* Faulty DropCandidate: blocks that lack an ancestor's data do not wait for it.
DropCandidate_NoWait(x, c) ==
    LET t     == CHOOSE t \in Unusable(x, c) :
                     \A a \in Unusable(x, c) : Height[a] <= Height[t]
        above == Ancestors[c] \ Ancestors[t]
        y     == [x EXCEPT !.candidates = @ \ (above \cup {t})]
    IN IF x.failed[t] # {} THEN MarkFailed(y, above, "CHILD") ELSE y

\* One round of FindMostWorkChain on a candidate that is not usable: the blocks
\* above the first obstacle met are marked, or wait for the missing data.
DropCandidate(x, c) ==
    LET t     == CHOOSE t \in Unusable(x, c) :
                     \A a \in Unusable(x, c) : Height[a] <= Height[t]
        above == Ancestors[c] \ Ancestors[t]
        y     == [x EXCEPT !.candidates = @ \ (above \cup {t})]
    IN IF x.failed[t] # {} THEN MarkFailed(y, above, "CHILD")
       ELSE [y EXCEPT !.unlinked = @ \cup above]

\* Faulty InvalidBlockFound: an invalid block stays a candidate, unmarked.
InvalidBlockFound_Nothing(x, b) == x

\* InvalidBlockFound for a block that violates a consensus rule.
InvalidBlockFound(x, b) ==
    [MarkFailed(x, {b}, "VALID") EXCEPT !.failedBlocks = @ \cup {b},
                                        !.candidates   = @ \ {b}]

\* The part of ConnectTip, and of the loop around it, that a valid block changes.
TipConnected(x, b) ==
    PruneBlockIndexCandidates(
        [x EXCEPT !.tip = b,
                  !.scripts = IF b = Genesis \/ x.failed[b] # {} THEN @ ELSE @ \cup {b}])

-----------------------------------------------------------------------------
(* Operator commands *)

\* The blocks InvalidateBlock(b) collects before it starts to disconnect.
CandidateBlocksByWork(x, b) ==
    {c \in x.known \ Chain(x) : ~Worse(x, c, Parent[b]) /\ Eligible(x, c)}

\* Faulty InvalidateTip: the disconnected tip is marked only after the loop.
InvalidateTip_MarksLater(x, mark, byWork) ==
    LET walk == x.tip IN
    [x EXCEPT !.tip = Parent[walk],
              !.candidates = (@ \ {walk}) \cup {Parent[walk]}
                                 \cup {c \in byWork : ~Worse(x, c, Parent[walk])}]

\* One round of InvalidateBlock: DisconnectTip, then the tip that was disconnected
\* is marked and loses its candidacy to its parent and to the collected blocks.
\* mark is the block disconnected before this one.
InvalidateTip(x, mark, byWork) ==
    LET walk == x.tip
        y    == [MarkFailed(x, {walk}, "VALID") EXCEPT !.tip = Parent[walk]]
        z    == IF Parent[walk] = mark /\ "VALID" \in y.failed[mark]
                THEN [y EXCEPT !.failed[mark] = (@ \ {"VALID"}) \cup {"CHILD"}]
                ELSE y
    IN [z EXCEPT !.candidates = (@ \ {walk}) \cup {Parent[walk]}
                                    \cup {c \in byWork : ~Worse(x, c, Parent[walk])}]

\* Faulty InvalidateDone: the index is not searched for missed candidates.
InvalidateDone_NoSearch(x, mark) ==
    [MarkFailed(x, {mark}, "VALID") EXCEPT !.failedBlocks = @ \cup {mark},
                                           !.candidates   = @ \ {mark}]

\* The end of InvalidateBlock: the last block disconnected (or the block itself)
\* is marked, and the index is searched for candidates that were missed.
InvalidateDone(x, mark) ==
    LET y == [MarkFailed(x, {mark}, "VALID") EXCEPT !.failedBlocks = @ \cup {mark},
                                                    !.candidates   = @ \ {mark}]
    IN [y EXCEPT !.candidates =
            @ \cup {c \in y.known : Eligible(y, c) /\ ~Worse(y, c, y.tip)}]

\* ResetBlockFailureFlags: b, its descendants and its ancestors are forgiven; of
\* those only b and its descendants can become candidates.
ResetBlockFailureFlags(x, b) ==
    LET below   == {c \in x.known : b \in Ancestors[c] /\ x.failed[c] # {}}
        cleared == below \cup {a \in Ancestors[b] : x.failed[a] # {}}
        y       == [x EXCEPT !.failed = [c \in Block |-> IF c \in cleared THEN {} ELSE @[c]],
                             !.failedBlocks = @ \ cleared]
    IN [y EXCEPT !.candidates =
            @ \cup {c \in below : Eligible(y, c) /\ Worse(y, y.tip, c)}]

\* The first half of PreciousBlock, on a block with no less work than the tip.
PreciousBlock(x, b, seq) ==
    LET y == [x EXCEPT !.candidates = @ \ {b}, !.seq[b] = seq]
    IN IF Eligible(y, b)
       THEN PruneBlockIndexCandidates([y EXCEPT !.candidates = @ \cup {b}])
       ELSE y

\* Faulty PruneOneBlockFile: nTx is reset, as if the blocks never arrived.
PruneOneBlockFile_ResetsTx(x, blocks) ==
    [x EXCEPT !.data = @ \ blocks, !.processed = @ \ blocks, !.unlinked = @ \ blocks]

\* PruneOneBlockFile, for a file that holds these blocks.
PruneOneBlockFile(x, blocks) ==
    [x EXCEPT !.data = @ \ blocks, !.unlinked = @ \ blocks]

-----------------------------------------------------------------------------
(* Startup *)

\* LoadBlockIndex on what the index held when it was written, LoadChainTip and
\* the end of RewindBlockIndex.  Going up by height, the failure of a parent is
\* handed down and the chain of received blocks is linked again.
LoadBlockIndex(x) ==
    LET up(b)    == Ancestors[b] \ {b}
        fails(b) == \E a \in up(b) : x.failed[a] # {}
        links(b) == Ancestors[b] \subseteq x.processed
        y == [x EXCEPT
                !.failed = [b \in Block |-> IF b \in x.known /\ @[b] = {} /\ fails(b)
                                            THEN {"CHILD"} ELSE @[b]],
                !.seq          = [b \in Block |-> 0],
                !.linked       = {b \in x.processed : links(b)},
                !.unlinked     = {b \in x.processed \ {Genesis} : ~links(Parent[b])},
                !.failedBlocks = {}]
        z == [y EXCEPT !.candidates = {b \in y.known : Eligible(y, b)}]
    IN PruneBlockIndexCandidates(z)
=============================================================================
