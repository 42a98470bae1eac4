-------------------------- MODULE ChainstateProofs --------------------------
(***************************************************************************)
(* The active chain, for every tree of blocks, every assignment of work    *)
(* and addresses, every set of invalid blocks and any number of commands.  *)
(***************************************************************************)
EXTENDS Chainstate, AncestryProofs

-----------------------------------------------------------------------------
(* nChainWork *)

\* nChainWork is defined on the whole tree, more than the parent's.
LEMMA WorkDef ==
    /\ Work \in [Block -> Nat]
    /\ \A b \in Block \ {Genesis} : Work[b] = Proof[b] + Work[Parent[b]]
  <1> DEFINE F == [p \in Block \X Nat |-> Proof[p[1]] + p[2]]
             IsWork(f) ==
                 f = [b \in Block |-> Proof[b] + (IF b = Genesis THEN 0 ELSE f[Parent[b]])]
  <1>1. F \in [Block \X Nat -> Nat]
    BY ProofAssumption
  <1>2. \A b \in Block, n \in Nat : F[<<b, n>>] = Proof[b] + n
    BY Zenon
  <1>3. Proof[Genesis] \in Nat
    BY ProofAssumption, AncestryAssumption, Zenon
  <1> HIDE DEF F
  <1>4. PICK f \in [Block -> Nat] : Solves(f, Block, Proof[Genesis], F)
    BY <1>1, <1>3, TreeRecursion, Zenon
  <1>5. IsWork(f)
    <2>1. \A b \in Block : f[b] = Proof[b] + (IF b = Genesis THEN 0 ELSE f[Parent[b]])
      <3> TAKE b \in Block
      <3>1. CASE b = Genesis
        <4>1. f[b] = Proof[b] /\ Proof[b] \in Nat
          BY <1>3, <1>4, <3>1, AncestryAssumption, Zenon DEF Solves
        <4>2. Proof[b] + 0 = Proof[b]
          BY <4>1
        <4> QED  BY <3>1, <4>1, <4>2, Zenon
      <3>2. CASE b # Genesis
        BY <1>2, <1>4, <3>2, AncestryAssumption, Zenon DEF Solves
      <3> QED  BY <3>1, <3>2, Zenon
    <2> QED  BY <2>1, Zenon
  <1>6. IsWork(Work)
    BY <1>5, Zenon DEF Work
  <1> DEFINE S == {b \in Block : Work[b] \in Nat}
  <1>7. \A b \in Block : Work[b] = Proof[b] + (IF b = Genesis THEN 0 ELSE Work[Parent[b]])
    BY <1>6, Zenon
  <1>8. S = Block
    <2>1. Genesis \in S
      BY <1>3, <1>7, AncestryAssumption
    <2>2. ASSUME NEW b \in Block \ {Genesis}, Parent[b] \in S PROVE b \in S
      <3>1. Work[b] = Proof[b] + Work[Parent[b]] /\ Proof[b] \in Nat /\ Work[Parent[b]] \in Nat
        BY <1>7, <2>2, ProofAssumption, Zenon
      <3> QED  BY <3>1
    <2> QED  BY <2>1, <2>2, TreeAssumption, Zenon
  <1>9. Work \in [Block -> Nat]
    BY <1>6, <1>8, Zenon
  <1> QED  BY <1>7, <1>9, Zenon

\* The blocks below a block have less work.
LEMMA LessWorkBelow ==
    \A b \in Block : \A a \in Ancestors[b] : a = b \/ Work[a] < Work[b]
  <1> DEFINE S == {b \in Block : \A a \in Ancestors[b] : a = b \/ Work[a] < Work[b]}
  <1>1. Genesis \in S
    BY AncestorsDef, AncestryAssumption, Zenon
  <1>2. ASSUME NEW b \in Block \ {Genesis}, Parent[b] \in S PROVE b \in S
    <2>1. ASSUME NEW a \in Ancestors[Parent[b]] PROVE Work[a] < Work[b]
      <3>1. a \in Block /\ Parent[b] \in Block
        BY AncestorsEnds, AncestryAssumption, Zenon
      <3>2. a = Parent[b] \/ Work[a] < Work[Parent[b]]
        BY <1>2, Zenon
      <3>3. /\ Work[a] \in Nat /\ Work[Parent[b]] \in Nat /\ Proof[b] \in Nat \ {0}
            /\ Work[b] = Proof[b] + Work[Parent[b]]
        BY <3>1, WorkDef, ProofAssumption, Zenon
      <3> QED  BY <3>2, <3>3
    <2>2. Ancestors[b] = {b} \cup Ancestors[Parent[b]]
      BY AncestorsDef, Zenon
    <2> QED  BY <2>1, <2>2, Zenon
  <1>3. S = Block
    BY <1>1, <1>2, TreeAssumption, Zenon
  <1> QED  BY <1>3, Zenon

-----------------------------------------------------------------------------
(* The block index *)

BlockOrNone == Block \cup {NoBlock}

\* The fields of an index record.
IndexType(y) ==
    y \in [known : SUBSET Block, processed : SUBSET Block, data : SUBSET Block,
           linked : SUBSET Block, scripts : {y.scripts},
           failed : [Block -> SUBSET FailedMask], seq : {y.seq},
           unlinked : SUBSET Block, failedBlocks : SUBSET Block,
           candidates : SUBSET Block, tip : BlockOrNone]

\* The chain of m is linked and nothing in it is marked as failed.
Clean(y, m) == \A a \in Ancestors[m] : a \in y.linked /\ y.failed[a] = {}

\* What every operation on the index keeps.  The candidates include no block of the
\* active chain but the tip: pindexMostWork is never below the tip.
IndexOK(y) ==
    /\ IndexType(y)
    /\ y.data \subseteq y.processed
    /\ y.linked \subseteq y.processed
    /\ y.unlinked \subseteq y.processed
    /\ y.candidates \subseteq y.linked
    /\ \A b \in y.linked : Ancestors[b] \subseteq y.linked
    /\ y.processed \cap BadBody = {}
    /\ \A f \in y.failedBlocks : y.failed[f] # {}
    /\ y.tip # NoBlock => Clean(y, y.tip)
    /\ \A c \in y.candidates \cap Chain(y) : c = y.tip

\* The active chain stays, and so does every clean chain.
Keeps(y, z) ==
    /\ z.tip = y.tip /\ y.linked \subseteq z.linked
    /\ \A m \in Block : Clean(y, m) => Clean(z, m)

\* A block that sorts no worse than the tip is not below it.
LEMMA NotBelow ==
    ASSUME NEW y, NEW t \in Block, NEW c \in Ancestors[t], ~Worse(y, c, t)
    PROVE  c = t
  <1>1. c = t \/ Work[c] < Work[t]
    BY LessWorkBelow, Zenon
  <1> QED  BY <1>1, Zenon DEF Worse

LEMMA MarkFailedFields ==
    ASSUME NEW y, IndexType(y), NEW M, NEW flag \in FailedMask
    PROVE  LET z == MarkFailed(y, M, flag) IN
           /\ IndexType(z)
           /\ z.known = y.known /\ z.processed = y.processed /\ z.data = y.data
           /\ z.linked = y.linked /\ z.seq = y.seq /\ z.unlinked = y.unlinked
           /\ z.failedBlocks = y.failedBlocks /\ z.candidates = y.candidates
           /\ z.tip = y.tip
           /\ \A b \in Block : z.failed[b] = IF b \in M THEN y.failed[b] \cup {flag}
                                                        ELSE y.failed[b]
  BY Zenon DEF IndexType, MarkFailed, FailedMask, BlockOrNone

LEMMA MarkFailedOK ==
    ASSUME NEW y, IndexOK(y), NEW M, NEW flag \in FailedMask, M \cap Chain(y) = {}
    PROVE  IndexOK(MarkFailed(y, M, flag))
  <1> DEFINE z == MarkFailed(y, M, flag)
  <1>1. IndexType(y)
    BY Zenon DEF IndexOK
  <1>2. /\ IndexType(z)
        /\ z.known = y.known /\ z.processed = y.processed /\ z.data = y.data
        /\ z.linked = y.linked /\ z.seq = y.seq /\ z.unlinked = y.unlinked
        /\ z.failedBlocks = y.failedBlocks /\ z.candidates = y.candidates
        /\ z.tip = y.tip
        /\ \A b \in Block : z.failed[b] = IF b \in M THEN y.failed[b] \cup {flag}
                                                     ELSE y.failed[b]
    BY <1>1, MarkFailedFields
  <1> HIDE DEF z
  <1>3. Chain(z) = Chain(y)
    BY <1>2, Zenon DEF Chain
  <1>4. \A f \in z.failedBlocks : z.failed[f] # {}
    BY <1>1, <1>2, Zenon DEF IndexOK, IndexType
  <1>5. z.tip # NoBlock => Clean(z, z.tip)
    BY <1>1, <1>2, AncestorsEnds, Zenon DEF IndexOK, IndexType, Clean, Chain, BlockOrNone
  <1>6. IndexOK(z)
    BY <1>2, <1>3, <1>4, <1>5, Zenon DEF IndexOK
  <1> QED  BY <1>6, Zenon DEF z

LEMMA MarkFailedKeeps ==
    ASSUME NEW y, IndexType(y), NEW M, NEW flag \in FailedMask,
           \A m \in Block : Clean(y, m) => M \cap Ancestors[m] = {}
    PROVE  Keeps(y, MarkFailed(y, M, flag))
  <1> DEFINE z == MarkFailed(y, M, flag)
  <1>1. /\ z.linked = y.linked /\ z.tip = y.tip
        /\ \A b \in Block : z.failed[b] = IF b \in M THEN y.failed[b] \cup {flag}
                                                     ELSE y.failed[b]
    BY MarkFailedFields
  <1> HIDE DEF z
  <1>2. \A m \in Block : Clean(y, m) => Clean(z, m)
    BY <1>1, AncestorsEnds, Zenon DEF Clean
  <1> QED  BY <1>1, <1>2, Zenon DEF Keeps, z

\* The blocks between a failed block and one above it are in no clean chain.
LEMMA AboveFailed ==
    ASSUME NEW y, NEW b \in Block, NEW f \in Ancestors[b], y.failed[f] # {}
    PROVE  \A m \in Block : Clean(y, m) => (Ancestors[b] \ Ancestors[f]) \cap Ancestors[m] = {}
  <1> SUFFICES ASSUME NEW m \in Block, Clean(y, m), NEW a \in Ancestors[b], a \notin Ancestors[f],
                      a \in Ancestors[m]
               PROVE  FALSE
    BY Zenon
  <1>1. f \in Ancestors[a]
    BY InARow, Zenon
  <1>2. f \in Ancestors[m]
    BY <1>1, AncestorsClosed, Zenon
  <1> QED  BY <1>2, Zenon DEF Clean

\* A set of blocks below one block has one of least address.
LEMMA LeastAddr ==
    ASSUME NEW b \in Block, NEW T \in SUBSET Ancestors[b], T # {}
    PROVE  \E f \in T : \A g \in T : Addr[f] <= Addr[g]
  <1> DEFINE Least(U) == \E f \in U : \A g \in U : Addr[f] <= Addr[g]
             S == {c \in Block : \A U \in SUBSET Ancestors[c] : U # {} => Least(U)}
  <1>1. Genesis \in S
    BY AncestorsDef, AncestryAssumption, AddrAssumption
  <1>2. ASSUME NEW c \in Block \ {Genesis}, Parent[c] \in S PROVE c \in S
    <2> SUFFICES ASSUME NEW U \in SUBSET Ancestors[c], U # {} PROVE Least(U)
      BY Zenon
    <2> DEFINE W == U \ {c}
    <2>1. W \in SUBSET Ancestors[Parent[c]] /\ U \subseteq Block
      BY AncestorsDef, Zenon
    <2>2. \A d \in U : Addr[d] \in Nat
      BY <2>1, AddrAssumption, Zenon
    <2>3. CASE W = {}
      <3>1. U = {c}
        BY <2>3, Zenon
      <3> QED  BY <2>2, <3>1
    <2>4. CASE c \notin U
      BY <1>2, <2>1, <2>4
    <2>5. CASE W # {} /\ c \in U
      <3>1. PICK f \in W : \A g \in W : Addr[f] <= Addr[g]
        BY <1>2, <2>1, <2>5, Zenon
      <3>2. CASE Addr[f] <= Addr[c]
        BY <3>1, <3>2, Zenon
      <3>3. CASE ~(Addr[f] <= Addr[c])
        <4>1. \A g \in U : Addr[c] <= Addr[g]
          BY <2>2, <2>5, <3>1, <3>3
        <4> QED  BY <2>5, <4>1, Zenon
      <3> QED  BY <3>2, <3>3, Zenon
    <2> QED  BY <2>3, <2>4, <2>5, Zenon
  <1>3. S = Block
    BY <1>1, <1>2, TreeAssumption, Zenon
  <1> QED  BY <1>3, Zenon

\* AcceptBlockHeader marks only blocks above a failed one.
LEMMA AcceptBlockHeaderOK ==
    ASSUME NEW y, IndexOK(y), NEW b \in Block \ {Genesis}
    PROVE  /\ IndexOK(AcceptBlockHeader(y, b)) /\ Keeps(y, AcceptBlockHeader(y, b))
           /\ AcceptBlockHeader(y, b).data = y.data
           /\ AcceptBlockHeader(y, b).processed = y.processed
           /\ AcceptBlockHeader(y, b).seq = y.seq
  <1> DEFINE z == AcceptBlockHeader(y, b)
             bad == FailedAncestors(y, Parent[b])
             f == CHOOSE f \in bad : \A g \in bad : Addr[f] <= Addr[g]
             M == Ancestors[Parent[b]] \ Ancestors[f]
             Goal == IndexOK(z) /\ Keeps(y, z) /\ z.data = y.data /\ z.processed = y.processed
                         /\ z.seq = y.seq
  <1>1. z = y \/ (bad = {} /\ z = [y EXCEPT !.known = @ \cup {b}])
              \/ (bad # {} /\ z = MarkFailed(y, M, "CHILD"))
    BY Zenon DEF AcceptBlockHeader
  <1>2. IndexType(y) /\ Parent[b] \in Block
    BY AncestryAssumption, Zenon DEF IndexOK
  <1>3. CASE z = y
    <2> HIDE DEF z
    <2>1. Goal
      BY <1>3, Zenon DEF Keeps
    <2> QED  BY <2>1, Zenon DEF z
  <1>4. CASE bad = {} /\ z = [y EXCEPT !.known = @ \cup {b}]
    <2> HIDE DEF z
    <2>1. /\ IndexType(z)
          /\ z.processed = y.processed /\ z.data = y.data
          /\ z.linked = y.linked /\ z.unlinked = y.unlinked /\ z.failed = y.failed
          /\ z.failedBlocks = y.failedBlocks /\ z.candidates = y.candidates
          /\ z.tip = y.tip /\ z.seq = y.seq
      BY <1>2, <1>4, Zenon DEF IndexType, BlockOrNone
    <2>2. Goal
      BY <2>1, Zenon DEF IndexOK, Keeps, Clean, Chain
    <2> QED  BY <2>2 DEF z
  <1>5. CASE bad # {} /\ z = MarkFailed(y, M, "CHILD")
    <2>1. bad \subseteq Ancestors[Parent[b]] /\ bad \subseteq y.failedBlocks
      BY Zenon DEF FailedAncestors
    <2>2. \E g \in bad : \A h \in bad : Addr[g] <= Addr[h]
      BY <1>2, <1>5, <2>1, LeastAddr, Zenon
    <2>3. f \in bad
      BY <2>2, Zenon
    <2> HIDE DEF f, bad, z
    <2>4. f \in Ancestors[Parent[b]] /\ y.failed[f] # {}
      BY <2>1, <2>3, Zenon DEF IndexOK
    <2>5. \A m \in Block : Clean(y, m) => M \cap Ancestors[m] = {}
      BY <1>2, <2>4, AboveFailed, Zenon
    <2>6. M \cap Chain(y) = {}
      BY <1>2, <2>5, Zenon DEF IndexOK, IndexType, Chain, BlockOrNone
    <2> HIDE DEF M
    <2>7. "CHILD" \in FailedMask
      BY Zenon DEF FailedMask
    <2>8. IndexOK(z)
      BY <1>5, <2>6, <2>7, MarkFailedOK, Zenon
    <2>9. Keeps(y, z)
      BY <1>2, <1>5, <2>5, <2>7, MarkFailedKeeps, Zenon
    <2>10. z.data = y.data /\ z.processed = y.processed /\ z.seq = y.seq
      BY <1>2, <1>5, <2>7, MarkFailedFields
    <2>11. Goal
      BY <2>8, <2>9, <2>10, Zenon
    <2> QED  BY <2>11 DEF z
  <1> QED  BY <1>1, <1>3, <1>4, <1>5, Zenon

\* ReceivedBlockTransactions links b again if it was linked, and links no block
\* whose parent is not.
LEMMA ReceivedOK ==
    ASSUME NEW y, IndexOK(y), NEW b \in Block \ {Genesis}, b \notin BadBody,
           NEW numbering, DOMAIN numbering = NewlyLinked(y, b)
    PROVE  /\ IndexOK(ReceivedBlockTransactions(y, b, numbering))
           /\ Keeps(y, ReceivedBlockTransactions(y, b, numbering))
  <1> DEFINE z    == ReceivedBlockTransactions(y, b, numbering)
             new  == NewlyLinked(y, b)
             seqs == [c \in Block |-> IF c \in new THEN numbering[c] ELSE y.seq[c]]
             w    == [y EXCEPT !.processed = @ \cup {b},
                               !.data      = @ \cup {b},
                               !.linked    = (@ \ {b}) \cup new,
                               !.seq       = seqs]
             add  == {c \in new : y.tip = NoBlock \/ ~Worse(w, c, y.tip)}
  <1>1. IndexType(y) /\ Parent[b] \in Block /\ b \in Ancestors[b] /\ Parent[b] \in Ancestors[b]
    BY AncestryAssumption, AncestorsEnds, ParentBelow, Zenon DEF IndexOK
  <1>2. new \subseteq {b} \cup y.unlinked
    BY Zenon DEF NewlyLinked
  <1>3. /\ z.known = y.known
        /\ z.processed = y.processed \cup {b} /\ z.data = y.data \cup {b}
        /\ z.linked = (y.linked \ {b}) \cup new /\ z.failed = y.failed
        /\ z.failedBlocks = y.failedBlocks /\ z.tip = y.tip
        /\ z.candidates = y.candidates \cup add
        /\ z.unlinked \in {y.unlinked \ (new \ {b}), y.unlinked \cup {b}, y.unlinked}
    BY <1>1 DEF IndexType, ReceivedBlockTransactions
  <1>4. IndexType(z)
    <2>1. new \subseteq Block
      BY <1>1, <1>2, Zenon DEF IndexType
    <2> DEFINE U == IF new # {} THEN w.unlinked \ (new \ {b})
                    ELSE IF y.failed[Parent[b]] = {} THEN w.unlinked \cup {b} ELSE w.unlinked
    <2>2. z = [w EXCEPT !.candidates = w.candidates \cup add, !.unlinked = U]
      BY DEF ReceivedBlockTransactions
    <2>3. IndexType(w)
      <3> HIDE DEF new, seqs
      <3> QED  BY <1>1, <2>1, Zenon DEF IndexType, BlockOrNone
    <2>4. add \subseteq Block /\ U \subseteq Block
      <3> HIDE DEF w, new
      <3> QED  BY <2>1, <2>3, Zenon DEF IndexType
    <2> HIDE DEF z, w, add, U
    <2> QED  BY <2>2, <2>3, <2>4, Zenon DEF IndexType, BlockOrNone
  <1> HIDE DEF z, w
  <1>5. \A a \in y.linked : a \in z.linked
    <2>1. b \in y.linked => b \in new
      BY <1>1, Zenon DEF NewlyLinked, IndexOK
    <2> QED  BY <1>3, <2>1, Zenon
  <1>6. ASSUME NEW d \in z.linked PROVE Ancestors[d] \subseteq z.linked
    <2>1. CASE d \in y.linked
      BY <1>5, <2>1, Zenon DEF IndexOK
    <2>2. CASE d \in new
      <3>1. Ancestors[Parent[b]] \subseteq y.linked
        BY <2>2, Zenon DEF NewlyLinked, IndexOK
      <3>2. Ancestors[b] \subseteq z.linked
        <4>1. b \in new
          BY <1>1, <2>2, Zenon DEF NewlyLinked
        <4> QED  BY <1>3, <1>5, <3>1, <4>1, AncestorsDef
      <3>3. ASSUME NEW a \in Ancestors[d], a \notin Ancestors[b] PROVE a \in new
        <4>1. d \in Block /\ a \in Block /\ b \in Ancestors[d]
          BY <1>1, <1>2, <2>2, AncestorsEnds, Zenon DEF NewlyLinked, IndexType
        <4>2. b \in Ancestors[a]
          BY <3>3, <4>1, InARow, Zenon
        <4>3. Ancestors[a] \subseteq Ancestors[d]
          BY <4>1, AncestorsClosed, Zenon
        <4>4. a \in Ancestors[a]
          BY <4>1, AncestorsEnds, Zenon
        <4> QED  BY <2>2, <3>3, <4>2, <4>3, <4>4, Zenon DEF NewlyLinked
      <3> QED  BY <1>3, <3>2, <3>3, Zenon
    <2> QED  BY <1>3, <2>1, <2>2, Zenon
  <1>7. Keeps(y, z)
    <2>1. y.linked \subseteq z.linked
      BY <1>5, Zenon
    <2> QED  BY <1>3, <2>1, Zenon DEF Keeps, Clean
  <1>8. ASSUME NEW c \in z.candidates, c \in Chain(z) PROVE c = z.tip
    <2>1. CASE c \in y.candidates
      BY <1>3, <1>8, <2>1, Zenon DEF IndexOK, Chain
    <2>2. CASE c \in add
      <3>1. y.tip \in Block /\ c \in Ancestors[y.tip] /\ ~Worse(w, c, y.tip)
        BY <1>1, <1>3, <1>8, <2>2, Zenon DEF Chain, IndexType, BlockOrNone
      <3> QED  BY <1>3, <3>1, NotBelow, Zenon
    <2> QED  BY <1>3, <2>1, <2>2, Zenon
  <1>9. IndexOK(z)
    <2>1. z.data \subseteq z.processed /\ z.unlinked \subseteq z.processed
      BY <1>3, Zenon DEF IndexOK
    <2>2. z.linked \subseteq z.processed
      BY <1>2, <1>3, Zenon DEF IndexOK
    <2>3. z.candidates \subseteq z.linked
      BY <1>3, <1>5, Zenon DEF IndexOK
    <2>4. z.processed \cap BadBody = {}
      BY <1>3, Zenon DEF IndexOK
    <2>5. \A f \in z.failedBlocks : z.failed[f] # {}
      BY <1>3, Zenon DEF IndexOK
    <2>6. z.tip # NoBlock => Clean(z, z.tip)
      BY <1>1, <1>3, <1>7, Zenon DEF IndexOK, Keeps, IndexType, BlockOrNone
    <2> QED  BY <1>4, <1>6, <1>8, <2>1, <2>2, <2>3, <2>4, <2>5, <2>6, Zenon DEF IndexOK
  <1> QED  BY <1>7, <1>9, Zenon DEF z

\* An operation that leaves the links, the failures and the tip alone.
LEMMA SameLinksOK ==
    ASSUME NEW y, IndexOK(y), NEW z, IndexType(z),
           z.processed = y.processed, z.linked = y.linked, z.failed = y.failed,
           z.failedBlocks = y.failedBlocks, z.tip = y.tip,
           z.data \subseteq y.processed, z.unlinked \subseteq y.processed,
           z.candidates \subseteq y.linked,
           \A c \in z.candidates : c \in Chain(y) => c = y.tip
    PROVE  IndexOK(z) /\ Keeps(y, z)
  BY Zenon DEF IndexOK, Keeps, Clean, Chain

LEMMA PruneCandidatesFields ==
    ASSUME NEW y, IndexType(y)
    PROVE  LET z == PruneBlockIndexCandidates(y) IN
           /\ IndexType(z)
           /\ z.known = y.known /\ z.processed = y.processed /\ z.data = y.data
           /\ z.linked = y.linked /\ z.failed = y.failed /\ z.seq = y.seq
           /\ z.unlinked = y.unlinked /\ z.failedBlocks = y.failedBlocks
           /\ z.tip = y.tip
           /\ z.candidates = {c \in y.candidates : ~Worse(y, c, y.tip)}
  <1> DEFINE C == {c \in y.candidates : ~Worse(y, c, y.tip)}
  <1>1. PruneBlockIndexCandidates(y) = [y EXCEPT !.candidates = C]
    BY Zenon DEF PruneBlockIndexCandidates
  <1>2. C \subseteq y.candidates
    BY Zenon
  <1> HIDE DEF C
  <1>3. LET z == [y EXCEPT !.candidates = C] IN
           /\ IndexType(z)
           /\ z.known = y.known /\ z.processed = y.processed /\ z.data = y.data
           /\ z.linked = y.linked /\ z.failed = y.failed /\ z.seq = y.seq
           /\ z.unlinked = y.unlinked /\ z.failedBlocks = y.failedBlocks
           /\ z.tip = y.tip
           /\ z.candidates = C
    BY <1>2, Zenon DEF IndexType, BlockOrNone
  <1> QED  BY <1>1, <1>3, Zenon DEF C

\* FindMostWorkChain gives up blocks that are in no clean chain, or lack data.
LEMMA DropCandidateOK ==
    ASSUME NEW y, IndexOK(y), NEW c \in y.candidates, Unusable(y, c) # {}
    PROVE  IndexOK(DropCandidate(y, c)) /\ Keeps(y, DropCandidate(y, c))
  <1> DEFINE bad   == Unusable(y, c)
             t     == CHOOSE t \in bad : \A a \in bad : Height[a] <= Height[t]
             above == Ancestors[c] \ Ancestors[t]
             w     == [y EXCEPT !.candidates = @ \ (above \cup {t})]
             z     == DropCandidate(y, c)
  <1>1. IndexType(y) /\ c \in Block /\ Ancestors[c] \subseteq y.linked
    BY Zenon DEF IndexOK, IndexType
  <1>2. bad \in SUBSET Ancestors[c] /\ bad # {}
    BY Zenon DEF Unusable
  <1>3. \E u \in bad : \A a \in bad : Height[a] <= Height[u]
    BY <1>1, <1>2, HighestBelow, Zenon
  <1>4. t \in Ancestors[c]
    BY <1>2, <1>3, Zenon
  <1>5. z = IF y.failed[t] # {} THEN MarkFailed(w, above, "CHILD")
            ELSE [w EXCEPT !.unlinked = @ \cup above]
    BY Zenon DEF DropCandidate
  <1> HIDE DEF t, bad, z
  <1>6. /\ IndexType(w)
        /\ w.processed = y.processed /\ w.data = y.data
        /\ w.linked = y.linked /\ w.failed = y.failed
        /\ w.unlinked = y.unlinked /\ w.failedBlocks = y.failedBlocks
        /\ w.tip = y.tip
        /\ w.candidates = y.candidates \ (above \cup {t})
    <2> HIDE DEF above
    <2> QED  BY <1>1, Zenon DEF IndexType, BlockOrNone
  <1> HIDE DEF w
  <1>7. IndexOK(w) /\ Keeps(y, w)
    <2>1. \A d \in w.candidates : d \in Chain(y) => d = y.tip
      BY <1>6, Zenon DEF IndexOK
    <2>2. w.data \subseteq y.processed /\ w.unlinked \subseteq y.processed
          /\ w.candidates \subseteq y.linked
      BY <1>6, Zenon DEF IndexOK
    <2> QED  BY <1>6, <2>1, <2>2, SameLinksOK, Zenon
  <1>8. CASE y.failed[t] # {}
    <2>1. z = MarkFailed(w, above, "CHILD")
      BY <1>5, <1>8, Zenon
    <2>2. \A m \in Block : Clean(w, m) => above \cap Ancestors[m] = {}
      <3>1. w.failed[t] # {}
        BY <1>6, <1>8, Zenon
      <3> QED  BY <1>1, <1>4, <3>1, AboveFailed, Zenon
    <2>3. above \cap Chain(w) = {}
      BY <1>7, <2>2, Zenon DEF IndexOK, IndexType, Chain, BlockOrNone
    <2> HIDE DEF above
    <2>4. "CHILD" \in FailedMask
      BY Zenon DEF FailedMask
    <2>5. IndexOK(z)
      BY <1>7, <2>1, <2>3, <2>4, MarkFailedOK, Zenon
    <2>6. Keeps(w, z)
      BY <1>6, <2>1, <2>2, <2>4, MarkFailedKeeps, Zenon
    <2> QED  BY <1>7, <2>5, <2>6, Zenon DEF Keeps, z
  <1>9. CASE y.failed[t] = {}
    <2>1. z = [w EXCEPT !.unlinked = @ \cup above]
      BY <1>5, <1>9, Zenon
    <2>2. above \subseteq y.processed
      BY <1>1, Zenon DEF IndexOK
    <2> HIDE DEF above
    <2>3. /\ IndexType(z)
          /\ z.processed = w.processed /\ z.data = w.data
          /\ z.linked = w.linked /\ z.failed = w.failed
          /\ z.unlinked = w.unlinked \cup above /\ z.failedBlocks = w.failedBlocks
          /\ z.tip = w.tip /\ z.candidates = w.candidates
      BY <1>1, <1>6, <2>1, <2>2, Zenon DEF IndexType, BlockOrNone
    <2>4. \A d \in z.candidates : d \in Chain(w) => d = w.tip
      BY <1>7, <2>3, Zenon DEF IndexOK
    <2>5. z.data \subseteq w.processed /\ z.unlinked \subseteq w.processed
          /\ z.candidates \subseteq w.linked
      BY <1>6, <1>7, <2>2, <2>3, Zenon DEF IndexOK
    <2>6. IndexOK(z) /\ Keeps(w, z)
      BY <1>7, <2>3, <2>4, <2>5, SameLinksOK, Zenon
    <2> QED  BY <1>7, <2>6, Zenon DEF Keeps, z
  <1> QED  BY <1>8, <1>9, Zenon

LEMMA InvalidBlockFoundOK ==
    ASSUME NEW y, IndexOK(y), NEW b \in Block, b \notin Chain(y)
    PROVE  IndexOK(InvalidBlockFound(y, b)) /\ InvalidBlockFound(y, b).tip = y.tip
  <1> DEFINE w == MarkFailed(y, {b}, "VALID")
             z == InvalidBlockFound(y, b)
  <1>1. "VALID" \in FailedMask /\ {b} \cap Chain(y) = {}
    BY Zenon DEF FailedMask
  <1>2. IndexOK(w)
    BY <1>1, MarkFailedOK, Zenon
  <1>3. IndexType(y) /\ IndexType(w)
    BY <1>2, Zenon DEF IndexOK
  <1>4. w.tip = y.tip /\ w.failed[b] # {}
    <2>1. /\ w.tip = y.tip
          /\ \A a \in Block : w.failed[a] = IF a \in {b} THEN y.failed[a] \cup {"VALID"}
                                                         ELSE y.failed[a]
      BY <1>1, <1>3, MarkFailedFields
    <2> HIDE DEF w
    <2> QED  BY <2>1, Zenon
  <1>5. z = [w EXCEPT !.failedBlocks = @ \cup {b}, !.candidates = @ \ {b}]
    BY Zenon DEF InvalidBlockFound
  <1> HIDE DEF w, z
  <1>6. /\ IndexType(z)
        /\ z.processed = w.processed /\ z.data = w.data
        /\ z.linked = w.linked /\ z.failed = w.failed
        /\ z.unlinked = w.unlinked /\ z.failedBlocks = w.failedBlocks \cup {b}
        /\ z.tip = w.tip /\ z.candidates = w.candidates \ {b}
    BY <1>3, <1>5, Zenon DEF IndexType, BlockOrNone
  <1>7. IndexOK(z) /\ z.tip = y.tip
    BY <1>2, <1>4, <1>6 DEF IndexOK, Chain, Clean
  <1> QED  BY <1>7, Zenon DEF z

\* ConnectTip on the next block of a clean chain.
LEMMA TipConnectedOK ==
    ASSUME NEW y, IndexOK(y), NEW b \in Block, Clean(y, b)
    PROVE  /\ IndexOK(TipConnected(y, b))
           /\ TipConnected(y, b).tip = b
           /\ \A m \in Block : Clean(y, m) => Clean(TipConnected(y, b), m)
  <1> DEFINE S == IF b = Genesis \/ y.failed[b] # {} THEN y.scripts ELSE y.scripts \cup {b}
             w == [y EXCEPT !.tip = b, !.scripts = S]
             z == TipConnected(y, b)
  <1>1. z = PruneBlockIndexCandidates(w)
    BY Zenon DEF TipConnected
  <1>2. IndexType(y)
    BY Zenon DEF IndexOK
  <1> HIDE DEF S
  <1>3. /\ IndexType(w)
        /\ w.processed = y.processed /\ w.data = y.data
        /\ w.linked = y.linked /\ w.failed = y.failed
        /\ w.unlinked = y.unlinked /\ w.failedBlocks = y.failedBlocks
        /\ w.tip = b /\ w.candidates = y.candidates
    BY <1>2, Zenon DEF IndexType, BlockOrNone
  <1> HIDE DEF w, z
  <1>4. /\ IndexType(z)
        /\ z.processed = y.processed /\ z.data = y.data
        /\ z.linked = y.linked /\ z.failed = y.failed
        /\ z.unlinked = y.unlinked /\ z.failedBlocks = y.failedBlocks
        /\ z.tip = b
        /\ z.candidates = {c \in y.candidates : ~Worse(w, c, b)}
    BY <1>1, <1>3, PruneCandidatesFields
  <1>5. ASSUME NEW c \in z.candidates, c \in Chain(z) PROVE c = z.tip
    <2>1. c \in Ancestors[b] /\ ~Worse(w, c, b)
      BY <1>4, <1>5, Zenon DEF Chain
    <2> QED  BY <1>4, <2>1, NotBelow, Zenon
  <1>6. \A m \in Block : Clean(y, m) => Clean(z, m)
    BY <1>4, Zenon DEF Clean
  <1>7. IndexOK(z)
    <2>1. Clean(z, z.tip)
      BY <1>4, <1>6, Zenon
    <2> QED  BY <1>4, <1>5, <2>1, Zenon DEF IndexOK
  <1> QED  BY <1>4, <1>6, <1>7, Zenon DEF z

\* A round of InvalidateBlock.  The tip leaves the chain before it is marked, and the
\* block whose mark is weakened is not the new tip.
LEMMA InvalidateTipOK ==
    ASSUME NEW y, IndexOK(y), y.tip \in Block \ {Genesis}, NEW mark \in Block,
           NEW byWork \in SUBSET y.linked
    PROVE  /\ IndexOK(InvalidateTip(y, mark, byWork))
           /\ InvalidateTip(y, mark, byWork).tip = Parent[y.tip]
           /\ InvalidateTip(y, mark, byWork).linked = y.linked
           /\ InvalidateTip(y, mark, byWork).known = y.known
           /\ InvalidateTip(y, mark, byWork).processed = y.processed
           /\ InvalidateTip(y, mark, byWork).data = y.data
           /\ InvalidateTip(y, mark, byWork).seq = y.seq
           /\ InvalidateTip(y, mark, byWork).unlinked = y.unlinked
           /\ \A b \in Block : y.failed[b] \subseteq InvalidateTip(y, mark, byWork).failed[b]
  <1> DEFINE walk == y.tip
             u == MarkFailed(y, {walk}, "VALID")
             w == [u EXCEPT !.tip = Parent[walk]]
             C == {c \in byWork : ~Worse(y, c, Parent[walk])}
             z == InvalidateTip(y, mark, byWork)
  <1>1. /\ IndexType(y) /\ Parent[walk] \in Block /\ Parent[walk] \in Ancestors[walk]
        /\ walk \notin Ancestors[Parent[walk]] /\ "VALID" \in FailedMask
    <2>1. IndexType(y) /\ Parent[walk] \in Block /\ Parent[walk] \in Ancestors[walk]
      BY AncestryAssumption, AncestorsEnds, ParentBelow, Zenon DEF IndexOK
    <2>2. walk \notin Ancestors[Parent[walk]]
      <3>1. Height[walk] = 1 + Height[Parent[walk]] /\ Height[Parent[walk]] \in Nat
            /\ Height[walk] \in Nat
        BY <2>1, HeightDef, Zenon
      <3>2. walk \in Ancestors[Parent[walk]] =>
                walk = Parent[walk] \/ Height[walk] < Height[Parent[walk]]
        BY <2>1, LowerBelow, Zenon
      <3> QED  BY <3>1, <3>2
    <2> QED  BY <2>1, <2>2, Zenon DEF FailedMask
  <1>2. /\ IndexType(u)
        /\ u.known = y.known /\ u.processed = y.processed /\ u.data = y.data
        /\ u.linked = y.linked /\ u.seq = y.seq /\ u.unlinked = y.unlinked
        /\ u.failedBlocks = y.failedBlocks /\ u.candidates = y.candidates
        /\ \A b \in Block : u.failed[b] = IF b = walk THEN y.failed[b] \cup {"VALID"}
                                                      ELSE y.failed[b]
    BY <1>1, MarkFailedFields
  <1> HIDE DEF u
  <1>3. /\ IndexType(w) /\ w.tip = Parent[walk] /\ w.known = y.known /\ w.seq = y.seq
        /\ w.processed = y.processed /\ w.data = y.data
        /\ w.linked = y.linked /\ w.unlinked = y.unlinked
        /\ w.failedBlocks = y.failedBlocks /\ w.candidates = y.candidates
        /\ w.failed = u.failed
    BY <1>1, <1>2, Zenon DEF IndexType, BlockOrNone
  <1>4. w.failed[Parent[walk]] = {}
    <2>1. y.failed[Parent[walk]] = {}
      BY <1>1, AncestryAssumption, Zenon DEF IndexOK, Clean
    <2>2. Parent[walk] # walk
      BY <1>1, AncestorsEnds, Zenon
    <2> QED  BY <1>1, <1>2, <1>3, <2>1, <2>2, Zenon
  <1>5. z = [w EXCEPT !.candidates = (@ \ {walk}) \cup {Parent[walk]} \cup C]
    BY <1>4, Zenon DEF InvalidateTip, u
  <1>6. C \subseteq y.linked
    BY Zenon
  <1> HIDE DEF w, z, C
  <1>7. /\ IndexType(z) /\ z.tip = Parent[walk] /\ z.known = y.known /\ z.seq = y.seq
        /\ z.processed = y.processed /\ z.data = y.data
        /\ z.linked = y.linked /\ z.unlinked = y.unlinked
        /\ z.failedBlocks = y.failedBlocks /\ z.failed = u.failed
        /\ z.candidates = (y.candidates \ {walk}) \cup {Parent[walk]} \cup C
    BY <1>1, <1>3, <1>5, <1>6 DEF IndexType, BlockOrNone
  <1>8. Clean(z, z.tip)
    <2>1. \A a \in Ancestors[Parent[walk]] : a \in Ancestors[walk] /\ a # walk /\ a \in Block
      BY <1>1, AncestorsClosed, AncestorsEnds, Zenon
    <2>2. Clean(y, walk)
      BY AncestryAssumption, Zenon DEF IndexOK
    <2>3. ASSUME NEW a \in Ancestors[Parent[walk]] PROVE a \in z.linked /\ z.failed[a] = {}
      <3>1. a \in Block /\ a # walk /\ a \in y.linked /\ y.failed[a] = {}
        BY <2>1, <2>2, Zenon DEF Clean
      <3> QED  BY <1>2, <1>7, <3>1, Zenon
    <2> QED  BY <1>7, <2>3, Zenon DEF Clean
  <1>9. ASSUME NEW c \in z.candidates, c \in Chain(z) PROVE c = z.tip
    <2>1. c \in Ancestors[Parent[walk]]
      BY <1>1, <1>7, <1>9, AncestryAssumption, Zenon DEF Chain
    <2>2. CASE c \in y.candidates \ {walk}
      <3>1. c \in Chain(y)
        BY <1>1, <2>1, AncestorsClosed, AncestryAssumption, Zenon DEF Chain
      <3> QED  BY <2>2, <3>1, Zenon DEF IndexOK
    <2>3. CASE c = Parent[walk]
      BY <1>7, <2>3, Zenon
    <2>4. CASE c \in C
      <3>1. ~Worse(y, c, Parent[walk])
        BY <2>4, Zenon DEF C
      <3> QED  BY <1>1, <1>7, <2>1, <3>1, NotBelow, Zenon
    <2> QED  BY <1>7, <2>2, <2>3, <2>4, Zenon
  <1>10. IndexOK(z)
    <2>1. ASSUME NEW f \in z.failedBlocks PROVE z.failed[f] # {}
      <3>1. f \in Block /\ y.failed[f] # {}
        BY <1>1, <1>7, Zenon DEF IndexOK, IndexType
      <3> QED  BY <1>2, <1>7, <3>1, Zenon
    <2>2. z.candidates \subseteq z.linked
      BY <1>1, <1>6, <1>7, AncestryAssumption, Zenon DEF IndexOK, Clean
    <2>3. /\ z.data \subseteq z.processed /\ z.linked \subseteq z.processed
          /\ z.unlinked \subseteq z.processed /\ z.processed \cap BadBody = {}
          /\ \A b \in z.linked : Ancestors[b] \subseteq z.linked
      BY <1>7, Zenon DEF IndexOK
    <2> QED  BY <1>7, <1>8, <1>9, <2>1, <2>2, <2>3, Zenon DEF IndexOK
  <1>11. \A b \in Block : y.failed[b] \subseteq z.failed[b]
    BY <1>2, <1>7, Zenon
  <1> QED  BY <1>7, <1>10, <1>11, Zenon DEF z

\* The end of InvalidateBlock: InvalidBlockFound on the mark, then the search.
LEMMA InvalidateDoneOK ==
    ASSUME NEW y, IndexOK(y), y.tip # NoBlock, NEW mark \in Block, mark \notin Chain(y)
    PROVE  IndexOK(InvalidateDone(y, mark)) /\ InvalidateDone(y, mark).tip = y.tip
  <1> DEFINE w == InvalidBlockFound(y, mark)
             C == {c \in w.known : Eligible(w, c) /\ ~Worse(w, c, w.tip)}
             z == InvalidateDone(y, mark)
  <1>1. z = [w EXCEPT !.candidates = @ \cup C]
    BY Zenon DEF InvalidateDone, InvalidBlockFound
  <1>2. IndexOK(w) /\ w.tip = y.tip
    BY InvalidBlockFoundOK, Zenon
  <1> HIDE DEF w, z
  <1>3. IndexType(w) /\ w.tip \in Block
    BY <1>2, Zenon DEF IndexOK, IndexType, BlockOrNone
  <1>4. C \subseteq w.linked
    BY Zenon DEF Eligible
  <1>5. \A c \in C : c \in Chain(w) => c = w.tip
    BY <1>3, NotBelow, AncestryAssumption, Zenon DEF Chain
  <1> HIDE DEF C
  <1>6. /\ IndexType(z)
        /\ z.processed = w.processed /\ z.data = w.data
        /\ z.linked = w.linked /\ z.failed = w.failed
        /\ z.unlinked = w.unlinked /\ z.failedBlocks = w.failedBlocks
        /\ z.tip = w.tip /\ z.candidates = w.candidates \cup C
    BY <1>1, <1>3, <1>4, Zenon DEF IndexType, BlockOrNone
  <1>7. \A d \in z.candidates : d \in Chain(w) => d = w.tip
    BY <1>2, <1>5, <1>6, Zenon DEF IndexOK
  <1>8. z.data \subseteq w.processed /\ z.unlinked \subseteq w.processed
        /\ z.candidates \subseteq w.linked
    BY <1>2, <1>4, <1>6, Zenon DEF IndexOK
  <1>9. IndexOK(z)
    BY <1>2, <1>6, <1>7, <1>8, SameLinksOK, Zenon
  <1> QED  BY <1>2, <1>6, <1>9, Zenon DEF z

\* A block the tip sorts worse than is not below it either.
LEMMA BetterNotBelow ==
    ASSUME NEW y, NEW t \in Block, NEW c \in Ancestors[t], Worse(y, t, c)
    PROVE  c = t
  <1>1. c = t \/ Work[c] < Work[t]
    BY LessWorkBelow, Zenon
  <1>2. Work[c] \in Nat /\ Work[t] \in Nat
    BY WorkDef, AncestorsEnds, Zenon
  <1> QED  BY <1>1, <1>2 DEF Worse

LEMMA ResetOK ==
    ASSUME NEW y, IndexOK(y), y.tip # NoBlock, NEW b \in Block
    PROVE  IndexOK(ResetBlockFailureFlags(y, b)) /\ Keeps(y, ResetBlockFailureFlags(y, b))
  <1> DEFINE below   == {c \in y.known : b \in Ancestors[c] /\ y.failed[c] # {}}
             cleared == below \cup {a \in Ancestors[b] : y.failed[a] # {}}
             F == [c \in Block |-> IF c \in cleared THEN {} ELSE y.failed[c]]
             w == [y EXCEPT !.failed = F, !.failedBlocks = @ \ cleared]
             C == {c \in below : Eligible(w, c) /\ Worse(w, w.tip, c)}
             z == ResetBlockFailureFlags(y, b)
  <1>1. z = [w EXCEPT !.candidates = @ \cup C]
    BY Zenon DEF ResetBlockFailureFlags
  <1>2. IndexType(y) /\ y.tip \in Block
    BY Zenon DEF IndexOK, IndexType, BlockOrNone
  <1> HIDE DEF below, cleared
  <1>3. /\ IndexType(w)
        /\ w.processed = y.processed /\ w.data = y.data
        /\ w.linked = y.linked /\ w.failed = F
        /\ w.unlinked = y.unlinked /\ w.failedBlocks = y.failedBlocks \ cleared
        /\ w.tip = y.tip /\ w.candidates = y.candidates
    BY <1>2, Zenon DEF IndexType, BlockOrNone
  <1> HIDE DEF w, z
  <1>4. Keeps(y, w)
    BY <1>3, AncestorsEnds, Zenon DEF Keeps, Clean
  <1>5. IndexOK(w)
    <2>1. \A f \in w.failedBlocks : w.failed[f] # {}
      BY <1>2, <1>3, Zenon DEF IndexOK, IndexType
    <2>2. Clean(w, w.tip)
      BY <1>2, <1>3, <1>4, Zenon DEF IndexOK, Keeps
    <2>3. /\ w.data \subseteq w.processed /\ w.linked \subseteq w.processed
          /\ w.unlinked \subseteq w.processed /\ w.processed \cap BadBody = {}
          /\ w.candidates \subseteq w.linked
          /\ \A d \in w.linked : Ancestors[d] \subseteq w.linked
          /\ \A c \in w.candidates \cap Chain(w) : c = w.tip
      BY <1>3, Zenon DEF IndexOK, Chain
    <2> QED  BY <1>3, <2>1, <2>2, <2>3, Zenon DEF IndexOK
  <1>6. C \subseteq w.linked
    BY Zenon DEF Eligible
  <1>7. \A c \in C : c \in Chain(w) => c = w.tip
    BY <1>2, <1>3, BetterNotBelow, Zenon DEF Chain
  <1> HIDE DEF C
  <1>8. /\ IndexType(z)
        /\ z.processed = w.processed /\ z.data = w.data
        /\ z.linked = w.linked /\ z.failed = w.failed
        /\ z.unlinked = w.unlinked /\ z.failedBlocks = w.failedBlocks
        /\ z.tip = w.tip /\ z.candidates = w.candidates \cup C
    BY <1>1, <1>3, <1>6, Zenon DEF IndexType, BlockOrNone
  <1>9. \A d \in z.candidates : d \in Chain(w) => d = w.tip
    BY <1>5, <1>7, <1>8, Zenon DEF IndexOK
  <1>10. z.data \subseteq w.processed /\ z.unlinked \subseteq w.processed
        /\ z.candidates \subseteq w.linked
    BY <1>5, <1>6, <1>8, Zenon DEF IndexOK
  <1>11. IndexOK(z) /\ Keeps(w, z)
    BY <1>5, <1>8, <1>9, <1>10, SameLinksOK, Zenon
  <1> QED  BY <1>4, <1>11, Zenon DEF z, Keeps

LEMMA PreciousOK ==
    ASSUME NEW y, IndexOK(y), y.tip # NoBlock, NEW b \in Block, NEW seq
    PROVE  IndexOK(PreciousBlock(y, b, seq)) /\ Keeps(y, PreciousBlock(y, b, seq))
  <1> DEFINE w == [y EXCEPT !.candidates = @ \ {b}, !.seq[b] = seq]
             v == [w EXCEPT !.candidates = @ \cup {b}]
             z == PreciousBlock(y, b, seq)
  <1>1. z = IF Eligible(w, b) THEN PruneBlockIndexCandidates(v) ELSE w
    BY Zenon DEF PreciousBlock
  <1>2. IndexType(y) /\ y.tip \in Block
    BY DEF IndexOK, IndexType, BlockOrNone
  <1>3. /\ IndexType(w)
        /\ w.processed = y.processed /\ w.data = y.data
        /\ w.linked = y.linked /\ w.failed = y.failed
        /\ w.unlinked = y.unlinked /\ w.failedBlocks = y.failedBlocks
        /\ w.tip = y.tip /\ w.candidates = y.candidates \ {b}
    BY <1>2, Zenon DEF IndexType, BlockOrNone
  <1> HIDE DEF w, z
  <1>4. /\ IndexType(v)
        /\ v.processed = y.processed /\ v.data = y.data
        /\ v.linked = y.linked /\ v.failed = y.failed
        /\ v.unlinked = y.unlinked /\ v.failedBlocks = y.failedBlocks
        /\ v.tip = y.tip /\ v.candidates = w.candidates \cup {b}
    BY <1>3, Zenon DEF IndexType, BlockOrNone
  <1> HIDE DEF v
  <1>5. y.data \subseteq y.processed /\ y.unlinked \subseteq y.processed
        /\ w.candidates \subseteq y.linked
        /\ \A c \in w.candidates : c \in Chain(y) => c = y.tip
    BY <1>3, Zenon DEF IndexOK
  <1>6. CASE Eligible(w, b)
    <2>1. z = PruneBlockIndexCandidates(v)
      BY <1>1, <1>6, Zenon
    <2>2. /\ IndexType(z)
          /\ z.processed = v.processed /\ z.data = v.data
          /\ z.linked = v.linked /\ z.failed = v.failed
          /\ z.unlinked = v.unlinked /\ z.failedBlocks = v.failedBlocks
          /\ z.tip = v.tip
          /\ z.candidates = {c \in v.candidates : ~Worse(v, c, v.tip)}
      BY <1>4, <2>1, PruneCandidatesFields, Zenon
    <2>3. ASSUME NEW c \in z.candidates, c \in Chain(y) PROVE c = y.tip
      <3>1. c \in Ancestors[y.tip] /\ ~Worse(v, c, y.tip)
        BY <1>2, <1>4, <2>2, <2>3, AncestryAssumption, Zenon DEF Chain
      <3> QED  BY <1>2, <3>1, NotBelow, Zenon
    <2>4. z.candidates \subseteq y.linked
      BY <1>3, <1>4, <1>5, <1>6, <2>2, Zenon DEF Eligible
    <2>5. IndexOK(z) /\ Keeps(y, z)
      BY <1>4, <1>5, <2>2, <2>3, <2>4, SameLinksOK, Zenon
    <2> QED  BY <2>5, Zenon DEF z
  <1>7. CASE ~Eligible(w, b)
    <2>1. z = w
      BY <1>1, <1>7, Zenon
    <2>2. IndexOK(w) /\ Keeps(y, w)
      BY <1>3, <1>5, SameLinksOK, Zenon
    <2> QED  BY <2>1, <2>2, Zenon DEF z
  <1> QED  BY <1>6, <1>7, Zenon

LEMMA PruneFileOK ==
    ASSUME NEW y, IndexOK(y), NEW B
    PROVE  IndexOK(PruneOneBlockFile(y, B)) /\ Keeps(y, PruneOneBlockFile(y, B))
  <1> DEFINE z == PruneOneBlockFile(y, B)
  <1>1. IndexType(y)
    BY Zenon DEF IndexOK
  <1>2. /\ IndexType(z)
        /\ z.processed = y.processed /\ z.data = y.data \ B
        /\ z.linked = y.linked /\ z.failed = y.failed
        /\ z.unlinked = y.unlinked \ B /\ z.failedBlocks = y.failedBlocks
        /\ z.tip = y.tip /\ z.candidates = y.candidates
    BY <1>1, Zenon DEF IndexType, BlockOrNone, PruneOneBlockFile
  <1> HIDE DEF z
  <1>3. /\ z.data \subseteq y.processed /\ z.unlinked \subseteq y.processed
        /\ z.candidates \subseteq y.linked
        /\ \A c \in z.candidates : c \in Chain(y) => c = y.tip
    BY <1>2, Zenon DEF IndexOK
  <1>4. IndexOK(z) /\ Keeps(y, z)
    BY <1>2, <1>3, SameLinksOK, Zenon
  <1> QED  BY <1>4, Zenon DEF z

\* Startup: a failure handed down from a parent does not reach the active chain.
LEMMA LoadOK ==
    ASSUME NEW y, IndexOK(y), y.tip # NoBlock
    PROVE  IndexOK(LoadBlockIndex(y)) /\ LoadBlockIndex(y).tip = y.tip
  <1> DEFINE up(b)    == Ancestors[b] \ {b}
             fails(b) == \E a \in up(b) : y.failed[a] # {}
             links(b) == Ancestors[b] \subseteq y.processed
             F == [b \in Block |-> IF b \in y.known /\ y.failed[b] = {} /\ fails(b)
                                  THEN {"CHILD"} ELSE y.failed[b]]
             Q == [b \in Block |-> 0]
             L == {b \in y.processed : links(b)}
             U == {b \in y.processed \ {Genesis} : ~links(Parent[b])}
             w == [y EXCEPT !.failed = F, !.seq = Q, !.linked = L, !.unlinked = U,
                            !.failedBlocks = {}]
             C == {b \in w.known : Eligible(w, b)}
             v == [w EXCEPT !.candidates = C]
             z == LoadBlockIndex(y)
  <1>1. z = PruneBlockIndexCandidates(v)
    BY Zenon DEF LoadBlockIndex
  <1>2. IndexType(y) /\ y.tip \in Block
    BY Zenon DEF IndexOK, IndexType, BlockOrNone
  <1>3. F \in [Block -> SUBSET FailedMask]
    <2>1. "CHILD" \in FailedMask
      BY Zenon DEF FailedMask
    <2> QED  BY <1>2, <2>1, Zenon DEF IndexType
  <1>4. L \subseteq y.processed /\ U \subseteq y.processed
    BY Zenon
  <1>5. \A a \in Ancestors[y.tip] : F[a] = {} /\ a \in L
    <2> TAKE a \in Ancestors[y.tip]
    <2>1. a \in Block /\ Ancestors[a] \subseteq Ancestors[y.tip]
      BY <1>2, AncestorsEnds, AncestorsClosed, Zenon
    <2>2. \A c \in Ancestors[y.tip] : y.failed[c] = {} /\ c \in y.processed
      BY Zenon DEF IndexOK, Clean
    <2> QED  BY <2>1, <2>2, Zenon
  <1>6. ASSUME NEW b \in L PROVE Ancestors[b] \subseteq L
    <2>1. b \in Block /\ Ancestors[b] \subseteq y.processed
      BY <1>2, Zenon DEF IndexType
    <2> QED  BY <2>1, AncestorsClosed, Zenon
  <1> HIDE DEF F, L, U, Q
  <1>7. /\ IndexType(w) /\ w.known = y.known
        /\ w.processed = y.processed /\ w.data = y.data
        /\ w.linked = L /\ w.failed = F
        /\ w.unlinked = U /\ w.failedBlocks = {} /\ w.tip = y.tip
    BY <1>2, <1>3, <1>4, Zenon DEF IndexType, BlockOrNone
  <1> HIDE DEF w, z
  <1>8. C \subseteq L
    BY <1>7, Zenon DEF Eligible
  <1> HIDE DEF C
  <1>9. /\ IndexType(v)
        /\ v.processed = y.processed /\ v.data = y.data
        /\ v.linked = L /\ v.failed = F
        /\ v.unlinked = U /\ v.failedBlocks = {} /\ v.tip = y.tip
        /\ v.candidates = C
    BY <1>2, <1>4, <1>7, <1>8, Zenon DEF IndexType, BlockOrNone
  <1> HIDE DEF v
  <1>10. /\ IndexType(z)
         /\ z.processed = y.processed /\ z.data = y.data
         /\ z.linked = L /\ z.failed = F
         /\ z.unlinked = U /\ z.failedBlocks = {} /\ z.tip = y.tip
         /\ z.candidates = {c \in C : ~Worse(v, c, y.tip)}
    BY <1>1, <1>9, PruneCandidatesFields, Zenon
  <1>11. ASSUME NEW c \in z.candidates, c \in Chain(z) PROVE c = z.tip
    <2>1. c \in Ancestors[y.tip] /\ ~Worse(v, c, y.tip)
      BY <1>10, <1>11, Zenon DEF Chain
    <2> QED  BY <1>2, <1>10, <2>1, NotBelow, Zenon
  <1>12. IndexOK(z)
    <2>1. Clean(z, z.tip)
      BY <1>5, <1>10, Zenon DEF Clean
    <2>2. /\ z.data \subseteq z.processed /\ z.linked \subseteq z.processed
          /\ z.unlinked \subseteq z.processed /\ z.processed \cap BadBody = {}
          /\ z.candidates \subseteq z.linked
          /\ \A d \in z.linked : Ancestors[d] \subseteq z.linked
          /\ \A f \in z.failedBlocks : z.failed[f] # {}
      BY <1>4, <1>6, <1>8, <1>10, Zenon DEF IndexOK
    <2> QED  BY <1>10, <1>11, <2>1, <2>2, Zenon DEF IndexOK
  <1> QED  BY <1>10, <1>12, Zenon DEF z

-----------------------------------------------------------------------------
(* The threads *)

\* No block of the active chain is one that ConnectBlock refuses.
ChainOK == Chain(x) \cap (Bad \cup Mutated) = {}

\* The thread in ActivateBestChain: the chain it works on is clean, and is not a
\* part of the active chain.
AbcOK ==
    /\ abc \in [pc : {"outside", "outer", "find", "step", "progress", "aborted"},
                mostWork : BlockOrNone, starting : BlockOrNone, oldTip : BlockOrNone,
                newTip : BlockOrNone, connected : BOOLEAN]
    /\ abc.mostWork # NoBlock => Clean(x, abc.mostWork)
    /\ abc.mostWork \in Chain(x) => abc.mostWork = x.tip
    /\ abc.pc = "step" => abc.mostWork \notin {NoBlock, x.tip}
    /\ abc.pc = "outside" => abc.mostWork = NoBlock

\* The thread in InvalidateBlock: m_cs_chainstate keeps the other one out, and its
\* last mark is at or above the block it was asked to invalidate.
InvOK ==
    /\ inv \in [block : BlockOrNone, mark : BlockOrNone, byWork : SUBSET Block]
    /\ inv # NotInvalidating =>
           /\ abc.pc = "outside" /\ x.tip # NoBlock
           /\ inv.block \in Block \ {Genesis} /\ inv.mark \in Block
           /\ inv.block \in Ancestors[inv.mark]
           /\ inv.byWork \subseteq x.linked

\* The inductive invariant.
IInv == IndexOK(x) /\ ChainOK /\ AbcOK /\ InvOK

LEMMA InitIInv == Init => IInv
  <1> SUFFICES ASSUME Init PROVE IInv
    BY Zenon
  <1>1. /\ x.known = {Genesis} /\ x.processed = {Genesis} /\ x.data = {Genesis}
        /\ x.linked = {Genesis} /\ x.failed = [b \in Block |-> {}]
        /\ x.unlinked = {} /\ x.failedBlocks = {} /\ x.candidates = {Genesis}
        /\ x.tip = NoBlock
    BY Zenon DEF Init
  <1>2. IndexType(x)
    BY AncestryAssumption, Zenon DEF Init, IndexType, BlockOrNone
  <1>3. IndexOK(x)
    BY <1>1, <1>2, AncestorsDef, GenesisAssumption DEF IndexOK, Chain
  <1>4. ChainOK
    BY <1>1, Zenon DEF ChainOK, Chain
  <1>5. AbcOK
    BY <1>1, Zenon DEF Init, NotRunning, AbcOK, Chain, BlockOrNone
  <1>6. InvOK
    BY Zenon DEF Init, NotInvalidating, InvOK, BlockOrNone
  <1> QED  BY <1>3, <1>4, <1>5, <1>6, Zenon DEF IInv

\* A step of another thread.
LEMMA OtherThread ==
    ASSUME IInv, IndexOK(x'), Keeps(x, x'), UNCHANGED <<abc, inv>>
    PROVE  IInv'
  <1>1. Chain(x') = Chain(x) /\ x'.tip = x.tip
    BY Zenon DEF Keeps, Chain
  <1>2. ChainOK'
    BY <1>1, Zenon DEF IInv, ChainOK
  <1>3. AbcOK'
    BY <1>1, Zenon DEF IInv, AbcOK, Keeps, BlockOrNone
  <1>4. InvOK'
    BY <1>1, Zenon DEF IInv, InvOK, Keeps, NotInvalidating
  <1> QED  BY <1>2, <1>3, <1>4, Zenon DEF IInv

LEMMA NewHeaderStep ==
    ASSUME IInv, NEW b \in Block \ {Genesis}, NewHeader(b)
    PROVE  IInv'
  <1>1. IndexOK(AcceptBlockHeader(x, b)) /\ Keeps(x, AcceptBlockHeader(x, b))
    BY AcceptBlockHeaderOK, Zenon DEF IInv
  <1>2. x' = AcceptBlockHeader(x, b) /\ UNCHANGED <<abc, inv>>
    BY Zenon DEF NewHeader
  <1> QED  BY <1>1, <1>2, OtherThread, Zenon

LEMMA NewBlockStep ==
    ASSUME IInv, NEW b \in Block \ {Genesis}, NEW fRequested \in BOOLEAN,
           NewBlock(b, fRequested)
    PROVE  IInv'
  <1> DEFINE y == AcceptBlockHeader(x, b)
  <1>1. IndexOK(y) /\ Keeps(x, y)
    BY AcceptBlockHeaderOK, Zenon DEF IInv
  <1>2. UNCHANGED <<abc, inv>>
    BY Zenon DEF NewBlock
  <1>3. \/ /\ b \notin BadBody
           /\ \E numbering \in Numberings(NewlyLinked(y, b), nextSeq) :
                 x' = ReceivedBlockTransactions(y, b, numbering)
        \/ b \in BadBody /\ x' = MarkFailed(y, {b}, "VALID")
        \/ x' = y
    BY Zenon DEF NewBlock
  <1> HIDE DEF y
  <1>4. ASSUME b \notin BadBody, NEW numbering \in Numberings(NewlyLinked(y, b), nextSeq),
               x' = ReceivedBlockTransactions(y, b, numbering)
        PROVE  IndexOK(x') /\ Keeps(y, x')
    <2>1. DOMAIN numbering = NewlyLinked(y, b)
      BY Zenon DEF Numberings
    <2> QED  BY <1>1, <1>4, <2>1, ReceivedOK, Zenon
  <1>5. ASSUME b \in BadBody, x' = MarkFailed(y, {b}, "VALID")
        PROVE  IndexOK(x') /\ Keeps(y, x')
    <2>1. "VALID" \in FailedMask
      BY Zenon DEF FailedMask
    <2>2. \A m \in Block : Clean(y, m) => {b} \cap Ancestors[m] = {}
      BY <1>1, <1>5, Zenon DEF IndexOK, Clean
    <2>3. {b} \cap Chain(y) = {}
      BY <1>1, <2>2, Zenon DEF IndexOK, IndexType, Chain, BlockOrNone
    <2>4. IndexType(y)
      BY <1>1, Zenon DEF IndexOK
    <2> QED  BY <1>1, <1>5, <2>1, <2>2, <2>3, <2>4, MarkFailedOK, MarkFailedKeeps, Zenon
  <1>6. ASSUME x' = y PROVE IndexOK(x') /\ Keeps(y, x')
    BY <1>1, <1>6, Zenon DEF Keeps
  <1>7. IndexOK(x') /\ Keeps(y, x')
    BY <1>3, <1>4, <1>5, <1>6, Zenon
  <1>8. Keeps(x, x')
    BY <1>1, <1>7, Zenon DEF Keeps
  <1> QED  BY <1>2, <1>7, <1>8, OtherThread, Zenon

LEMMA CommandStep ==
    ASSUME IInv, NEW b,
           (ReconsiderBlock(b) \/ MakePrecious(b) \/ Prune(b))
    PROVE  IInv'
  <1>1. IndexType(x) /\ IndexOK(x)
    BY Zenon DEF IInv, IndexOK
  <1>2. CASE ReconsiderBlock(b)
    <2>1. b \in Block /\ x.tip # NoBlock
      BY <1>1, <1>2, Zenon DEF ReconsiderBlock, Command, Ready, IndexType
    <2>2. IndexOK(x') /\ Keeps(x, x')
      BY <1>1, <1>2, <2>1, ResetOK, Zenon DEF ReconsiderBlock
    <2> QED  BY <1>2, <2>2, OtherThread, Zenon DEF ReconsiderBlock
  <1>3. CASE MakePrecious(b)
    <2>1. b \in Block /\ x.tip # NoBlock
      BY <1>1, <1>3, Zenon DEF MakePrecious, Command, Ready, IndexType
    <2>2. PICK seq : x' = PreciousBlock(x, b, seq)
      BY <1>3, Zenon DEF MakePrecious
    <2>3. IndexOK(x') /\ Keeps(x, x')
      BY <1>1, <2>1, <2>2, PreciousOK, Zenon
    <2> QED  BY <1>3, <2>3, OtherThread, Zenon DEF MakePrecious
  <1>4. CASE Prune(b)
    <2>1. IndexOK(x') /\ Keeps(x, x')
      BY <1>1, <1>4, PruneFileOK, Zenon DEF Prune
    <2> QED  BY <1>4, <2>1, OtherThread, Zenon DEF Prune
  <1> QED  BY <1>2, <1>3, <1>4, Zenon

LEMMA RestartStep ==
    ASSUME IInv, Restart
    PROVE  IInv'
  <1>1. /\ IndexOK(x) /\ x.tip # NoBlock /\ abc.pc = "outside" /\ inv = NotInvalidating
        /\ x' = LoadBlockIndex(x) /\ UNCHANGED <<abc, inv>>
    BY Zenon DEF IInv, Restart, Command, Ready, chainstateFree
  <1>2. IndexOK(x') /\ x'.tip = x.tip
    BY <1>1, LoadOK, Zenon
  <1>3. Chain(x') = Chain(x)
    BY <1>2, Zenon DEF Chain
  <1>4. ChainOK' /\ InvOK'
    BY <1>1, <1>3, Zenon DEF IInv, ChainOK, InvOK
  <1>5. AbcOK'
    BY <1>1, <1>2, <1>3, Zenon DEF IInv, AbcOK
  <1> QED  BY <1>2, <1>4, <1>5, Zenon DEF IInv

LEMMA InvalidateStep ==
    ASSUME IInv, ((\E b \in Invalidated : InvalidateBlock(b)) \/ InvalidateRound \/ InvalidateEnd)
    PROVE  IInv'
  <1>1. IndexType(x) /\ IndexOK(x)
    BY Zenon DEF IInv, IndexOK
  <1>2. ASSUME NEW b, InvalidateBlock(b) PROVE IInv'
    <2>1. /\ b \in Block \ {Genesis} /\ x.tip # NoBlock /\ abc.pc = "outside"
          /\ inv' = [block |-> b, mark |-> b, byWork |-> CandidateBlocksByWork(x, b)]
          /\ UNCHANGED <<x, abc>>
      BY <1>1, <1>2, Zenon DEF InvalidateBlock, Command, Ready, IndexType, chainstateFree
    <2>2. CandidateBlocksByWork(x, b) \subseteq x.linked
      BY Zenon DEF CandidateBlocksByWork, Eligible
    <2>3. InvOK'
      BY <1>1, <2>1, <2>2, AncestorsEnds, Zenon DEF InvOK, IndexType, BlockOrNone
    <2> QED  BY <2>1, <2>3, Zenon DEF IInv, ChainOK, AbcOK
  <1>3. CASE InvalidateRound
    <2>1. /\ abc.pc = "outside" /\ x.tip \in Block
          /\ inv.block \in Block \ {Genesis} /\ inv.mark \in Block
          /\ inv.byWork \subseteq x.linked /\ inv.block \in Ancestors[x.tip]
          /\ abc.mostWork = NoBlock /\ UNCHANGED abc
      BY <1>1, <1>3, Zenon DEF InvalidateRound, IInv, InvOK, AbcOK, IndexType, BlockOrNone, Chain
    <2>2. x.tip # Genesis
      BY <2>1, AncestorsDef, Zenon
    <2>3. CASE x.tip \in x.data
      <3>1. /\ x' = InvalidateTip(x, inv.mark, inv.byWork)
            /\ inv' = [inv EXCEPT !.mark = x.tip,
                                  !.byWork = {c \in @ : Worse(x, c, Parent[x.tip])}]
        BY <1>3, <2>3, Zenon DEF InvalidateRound
      <3>2. IndexOK(x') /\ x'.tip = Parent[x.tip] /\ x'.linked = x.linked
        BY <1>1, <2>1, <2>2, <3>1, InvalidateTipOK
      <3>3. Parent[x.tip] \in Block /\ Chain(x') \subseteq Chain(x)
        BY <2>1, <2>2, <3>2, AncestryAssumption, AncestorsDef DEF Chain
      <3>4. ChainOK'
        BY <3>3, Zenon DEF IInv, ChainOK
      <3>5. AbcOK'
        BY <2>1, <3>2, <3>3, AncestryAssumption, Zenon DEF IInv, AbcOK
      <3>6. InvOK'
        <4> DEFINE W == {c \in inv.byWork : Worse(x, c, Parent[x.tip])}
        <4>1. W \subseteq inv.byWork /\ inv' = [inv EXCEPT !.mark = x.tip, !.byWork = W]
          BY <3>1, Zenon
        <4> HIDE DEF W
        <4>2. inv \in [block : BlockOrNone, mark : BlockOrNone, byWork : SUBSET Block]
          BY Zenon DEF IInv, InvOK
        <4>3. /\ inv' \in [block : BlockOrNone, mark : BlockOrNone, byWork : SUBSET Block]
              /\ inv'.block = inv.block /\ inv'.mark = x.tip /\ inv'.byWork = W
          BY <2>1, <4>1, <4>2, Zenon DEF BlockOrNone
        <4> QED  BY <2>1, <3>2, <3>3, <4>1, <4>3, AncestryAssumption, Zenon DEF InvOK
      <3> QED  BY <3>2, <3>4, <3>5, <3>6, Zenon DEF IInv
    <2>4. CASE x.tip \notin x.data
      <3>1. inv' = NotInvalidating /\ UNCHANGED x
        BY <1>3, <2>4, Zenon DEF InvalidateRound
      <3>2. InvOK'
        BY <3>1, Zenon DEF InvOK, NotInvalidating, BlockOrNone
      <3> QED  BY <2>1, <3>1, <3>2, Zenon DEF IInv, ChainOK, AbcOK
    <2> QED  BY <2>3, <2>4, Zenon
  <1>4. CASE InvalidateEnd
    <2>1. /\ abc.pc = "outside" /\ x.tip \in Block
          /\ inv.mark \in Block /\ inv.block \in Ancestors[inv.mark]
          /\ abc.mostWork = NoBlock /\ UNCHANGED abc
          /\ inv.block \notin Chain(x) /\ inv' = NotInvalidating
          /\ x' = InvalidateDone(x, inv.mark)
      BY <1>1, <1>4, Zenon DEF InvalidateEnd, IInv, InvOK, AbcOK, IndexType, BlockOrNone
    <2>2. inv.mark \notin Chain(x)
      BY <2>1, AncestorsClosed, AncestryAssumption, Zenon DEF Chain
    <2>3. IndexOK(x') /\ x'.tip = x.tip
      BY <1>1, <2>1, <2>2, AncestryAssumption, InvalidateDoneOK, Zenon
    <2>4. Chain(x') = Chain(x)
      BY <2>3, Zenon DEF Chain
    <2>5. ChainOK' /\ InvOK'
      BY <2>1, <2>4, Zenon DEF IInv, ChainOK, InvOK, NotInvalidating, BlockOrNone
    <2>6. AbcOK'
      BY <2>1, <2>3, <2>4, Zenon DEF IInv, AbcOK
    <2> QED  BY <2>3, <2>5, <2>6, Zenon DEF IInv
  <1> QED  BY <1>2, <1>3, <1>4, Zenon

\* The next block to connect is the child of the tip on the way to pindexMostWork.
LEMMA NextIsChild ==
    ASSUME abc.mostWork \in Block, x.tip \in Ancestors[abc.mostWork] \cup {NoBlock},
           x.tip # abc.mostWork
    PROVE  /\ NextToConnect \in Ancestors[abc.mostWork]
           /\ IF x.tip = NoBlock THEN NextToConnect = Genesis
              ELSE NextToConnect # Genesis /\ Parent[NextToConnect] = x.tip
  <1> DEFINE m == abc.mostWork
             h == IF x.tip = NoBlock THEN 0 ELSE Height[x.tip] + 1
             b == NextToConnect
  <1>1. ASSUME NEW c \in Ancestors[m], Height[c] = h
        PROVE  b \in Ancestors[m] /\ Height[b] = h
    BY <1>1, Zenon DEF NextToConnect
  <1>2. Ancestors[m] \subseteq Block /\ Genesis \in Ancestors[m]
    BY AncestorsEnds, Zenon
  <1> HIDE DEF b
  <1>3. CASE x.tip = NoBlock
    <2>1. Height[Genesis] = h
      BY <1>3, HeightDef, Zenon
    <2>2. b \in Ancestors[m] /\ Height[b] = Height[Genesis]
      BY <1>1, <1>2, <2>1, Zenon
    <2>3. b = Genesis
      BY <1>2, <2>2, OneAtAHeight, Zenon
    <2> QED  BY <1>3, <2>2, <2>3, Zenon DEF b
  <1>4. CASE x.tip # NoBlock
    <2>1. x.tip \in Ancestors[m] \ {m} /\ x.tip \in Block
      BY <1>2, <1>4, Zenon
    <2>2. PICK c \in Ancestors[m] \ {Genesis} : Parent[c] = x.tip
      BY <2>1, NextUp, Zenon
    <2>3. Height[x.tip] \in Nat /\ Height[c] = h
      BY <1>2, <1>4, <2>1, <2>2, HeightDef
    <2>4. b \in Ancestors[m] /\ Height[b] = Height[x.tip] + 1
      BY <1>1, <1>4, <2>3, Zenon
    <2>5. b # Genesis
      BY <2>3, <2>4, HeightDef
    <2>6. Parent[b] \in Ancestors[m] /\ Parent[b] \in Block
      BY <1>2, <2>4, <2>5, ParentBelow, Zenon
    <2>7. Height[Parent[b]] = Height[x.tip]
      <3>1. Height[b] = 1 + Height[Parent[b]] /\ Height[Parent[b]] \in Nat
        BY <1>2, <2>4, <2>5, <2>6, HeightDef, Zenon
      <3> QED  BY <2>3, <2>4, <3>1
    <2>8. Parent[b] = x.tip
      BY <2>1, <2>6, <2>7, OneAtAHeight, Zenon
    <2> QED  BY <1>4, <2>4, <2>5, <2>8, Zenon DEF b
  <1> QED  BY <1>3, <1>4, Zenon

LEMMA NotRunningOK ==
    ASSUME IndexType(x'), abc' = NotRunning
    PROVE  AbcOK'
  <1>1. NoBlock \notin Chain(x')
    BY AncestorsEnds, AncestryAssumption, Zenon DEF Chain, IndexType, BlockOrNone
  <1> QED  BY <1>1, Zenon DEF AbcOK, NotRunning, BlockOrNone

LEMMA EnterStep ==
    ASSUME IInv, (Enter \/ LockMain \/ Progress)
    PROVE  IInv'
  <1>1. UNCHANGED <<x, inv>>
    BY Zenon DEF Enter, LockMain, Progress, abcUnchanged
  <1>2. IndexOK(x)' /\ ChainOK'
    BY <1>1, Zenon DEF IInv, ChainOK
  <1>3. IndexType(x) /\ AbcOK
    BY Zenon DEF IInv, IndexOK
  <1>4. CASE Enter
    <2>1. inv = NotInvalidating /\ abc' = [NotRunning EXCEPT !.pc = "outer"]
      BY <1>4, Zenon DEF Enter, chainstateFree
    <2>2. AbcOK'
      <3>1. abc'.pc = "outer" /\ abc'.mostWork = NoBlock
        BY <2>1, Zenon DEF NotRunning
      <3>2. NoBlock \notin Chain(x)
        BY <1>3, AncestorsEnds, AncestryAssumption, Zenon DEF Chain, IndexType, BlockOrNone
      <3> QED  BY <1>1, <2>1, <3>1, <3>2, Zenon DEF AbcOK, NotRunning, BlockOrNone
    <2> QED  BY <1>1, <1>2, <2>1, <2>2, Zenon DEF IInv, InvOK, NotInvalidating
  <1>5. CASE LockMain
    <2>1. abc.pc = "outer" /\ abc' = [abc EXCEPT !.pc = "find", !.starting = x.tip, !.connected = FALSE]
      BY <1>5, Zenon DEF LockMain
    <2>2. AbcOK'
      BY <1>1, <1>3, <2>1, Zenon DEF AbcOK, IndexType
    <2> QED  BY <1>1, <1>2, <2>1, <2>2, Zenon DEF IInv, InvOK
  <1>6. CASE Progress
    <2>1. abc.pc = "progress"
          /\ abc' \in {[abc EXCEPT !.pc = "find"], [abc EXCEPT !.pc = "outer"], NotRunning}
      BY <1>6, Zenon DEF Progress, LeaveRound
    <2>2. ASSUME abc' = NotRunning PROVE AbcOK'
      BY <1>1, <1>3, <2>2, NotRunningOK, Zenon
    <2>3. ASSUME abc' \in {[abc EXCEPT !.pc = "find"], [abc EXCEPT !.pc = "outer"]}
          PROVE  AbcOK'
      BY <1>1, <1>3, <2>3, Zenon DEF AbcOK
    <2> QED  BY <1>1, <1>2, <2>1, <2>2, <2>3, Zenon DEF IInv, InvOK
  <1> QED  BY <1>4, <1>5, <1>6, Zenon

\* What FindMostWorkChain returns is the end of a clean chain.
LEMMA FoundIsClean ==
    ASSUME IInv, NEW most \in MostWorkFound
    PROVE  /\ most \in BlockOrNone
           /\ most # NoBlock => Clean(x, most)
           /\ most \in Chain(x) => most = x.tip
  <1>1. IndexType(x) /\ IndexOK(x) /\ AbcOK
    BY Zenon DEF IInv, IndexOK
  <1>2. CASE most = abc.mostWork
    BY <1>1, <1>2, Zenon DEF AbcOK
  <1>3. CASE most = NoBlock
    BY <1>1, <1>3, AncestorsEnds, AncestryAssumption, Zenon DEF Chain, IndexType, BlockOrNone
  <1>4. CASE most \in BestCandidates(x) /\ Unusable(x, most) = {}
    <2>1. most \in x.candidates /\ most \in Block
      BY <1>1, <1>4, Zenon DEF BestCandidates, IndexType
    <2>2. ASSUME NEW a \in Ancestors[most] PROVE a \in x.linked /\ x.failed[a] = {}
      <3>1. a \in x.linked
        BY <1>1, <2>1, Zenon DEF IndexOK
      <3>2. a \in Chain(x) => x.failed[a] = {}
        BY <1>1, Zenon DEF IndexOK, Chain, Clean
      <3>3. a \notin Chain(x) => x.failed[a] = {}
        BY <1>4, Zenon DEF Unusable
      <3> QED  BY <3>1, <3>2, <3>3, Zenon
    <2> QED  BY <1>1, <2>1, <2>2, Zenon DEF Clean, IndexOK, BlockOrNone
  <1> QED  BY <1>2, <1>3, <1>4, Zenon DEF MostWorkFound

LEMMA FindStep ==
    ASSUME IInv, FindMostWork
    PROVE  IInv'
  <1>1. IndexType(x) /\ IndexOK(x) /\ AbcOK /\ ChainOK /\ abc.pc = "find" /\ UNCHANGED inv
    BY Zenon DEF IInv, IndexOK, FindMostWork, abcUnchanged
  <1>2. ASSUME NEW c \in BestCandidates(x), Unusable(x, c) # {}, x' = DropCandidate(x, c),
               UNCHANGED abc
        PROVE  IInv'
    <2>1. c \in x.candidates
      BY Zenon DEF BestCandidates
    <2>2. IndexOK(x') /\ Keeps(x, x')
      BY <1>1, <1>2, <2>1, DropCandidateOK, Zenon
    <2> QED  BY <1>1, <1>2, <2>2, OtherThread, Zenon
  <1>3. ASSUME NEW most \in MostWorkFound, UNCHANGED x,
               LET a == [abc EXCEPT !.mostWork = most]
               IN abc' = IF most \notin {NoBlock, x.tip}
                         THEN [a EXCEPT !.pc = "step", !.oldTip = x.tip, !.connected = TRUE]
                         ELSE IF abc.connected THEN LeaveRound(a)
                         ELSE NotRunning
        PROVE  IInv'
    <2> DEFINE a == [abc EXCEPT !.mostWork = most]
    <2>1. /\ most \in BlockOrNone
          /\ most # NoBlock => Clean(x, most)
          /\ most \in Chain(x) => most = x.tip
      BY FoundIsClean, Zenon
    <2>2. ASSUME /\ most \notin {NoBlock, x.tip}
                 /\ abc' = [a EXCEPT !.pc = "step", !.oldTip = x.tip, !.connected = TRUE]
          PROVE  AbcOK'
      BY <1>1, <1>3, <2>1, <2>2 DEF AbcOK, IndexType
    <2>3. ASSUME abc' = [a EXCEPT !.pc = "outer"] PROVE AbcOK'
      BY <1>1, <1>3, <2>1, <2>3, ZenonT(30) DEF AbcOK
    <2>4. ASSUME abc' = NotRunning PROVE AbcOK'
      BY <1>1, <1>3, <2>4, NotRunningOK, Zenon
    <2>5. AbcOK'
      BY <1>3, <2>2, <2>3, <2>4, Zenon DEF LeaveRound
    <2>6. InvOK'
      BY <1>1, <1>3, Zenon DEF IInv, InvOK
    <2> QED  BY <1>1, <1>3, <2>5, <2>6, Zenon DEF IInv, ChainOK
  <1> QED  BY <1>2, <1>3, Zenon DEF FindMostWork

LEMMA DisconnectStep ==
    ASSUME IInv, StepDisconnect
    PROVE  IInv'
  <1>1. /\ IndexType(x) /\ IndexOK(x) /\ AbcOK /\ ChainOK /\ InvOK /\ abc.pc = "step" /\ UNCHANGED inv
        /\ abc.mostWork \in Block /\ abc.mostWork # x.tip
        /\ x.tip \in Block /\ x.tip \notin Ancestors[abc.mostWork]
    BY Zenon DEF IInv, IndexOK, IndexType, AbcOK, BlockOrNone, StepDisconnect, abcUnchanged
  <1>2. CASE x' = [x EXCEPT !.tip = Parent[x.tip]] /\ UNCHANGED abc
    <2>1. /\ x.tip # Genesis /\ Parent[x.tip] \in Block
          /\ Ancestors[x.tip] = {x.tip} \cup Ancestors[Parent[x.tip]]
      BY <1>1, AncestorsEnds, AncestorsDef, AncestryAssumption
    <2>2. x.tip \notin Ancestors[Parent[x.tip]]
      <3>1. Height[x.tip] = 1 + Height[Parent[x.tip]] /\ Height[Parent[x.tip]] \in Nat
            /\ Height[x.tip] \in Nat
        BY <1>1, <2>1, HeightDef, Zenon
      <3>2. x.tip \in Ancestors[Parent[x.tip]] =>
                x.tip = Parent[x.tip] \/ Height[x.tip] < Height[Parent[x.tip]]
        BY <2>1, LowerBelow, Zenon
      <3> QED  BY <3>1, <3>2
    <2>3. /\ IndexType(x') /\ x'.tip = Parent[x.tip]
          /\ x'.processed = x.processed /\ x'.data = x.data
          /\ x'.linked = x.linked /\ x'.failed = x.failed
          /\ x'.unlinked = x.unlinked /\ x'.failedBlocks = x.failedBlocks
          /\ x'.candidates = x.candidates
      BY <1>1, <1>2, <2>1, Zenon DEF IndexType, BlockOrNone
    <2>4. Chain(x') = Ancestors[Parent[x.tip]] /\ Chain(x) = Ancestors[x.tip]
      BY <1>1, <2>1, <2>3, AncestryAssumption, Zenon DEF Chain
    <2>5. Clean(x', x'.tip)
      BY <1>1, <2>1, <2>3, AncestryAssumption, Zenon DEF IndexOK, Clean
    <2>6. \A c \in x'.candidates \cap Chain(x') : c = x'.tip
      BY <1>1, <2>1, <2>2, <2>3, <2>4 DEF IndexOK
    <2>7. IndexOK(x')
      BY <1>1, <2>3, <2>5, <2>6, Zenon DEF IndexOK
    <2>8. ChainOK'
      BY <1>1, <2>1, <2>4, Zenon DEF ChainOK
    <2>9. AbcOK'
      <3>1. abc.mostWork \notin Chain(x')
        BY <1>1, <2>1, <2>4, Zenon DEF AbcOK
      <3>2. x'.tip \in Chain(x')
        BY <2>1, <2>3, <2>4, AncestorsEnds, Zenon
      <3>3. Clean(x', abc.mostWork)
        BY <1>1, <2>3, AncestryAssumption, Zenon DEF AbcOK, Clean
      <3> QED  BY <1>1, <1>2, <3>1, <3>2, <3>3, AncestryAssumption, Zenon DEF AbcOK
    <2>10. InvOK'
      BY <1>1, <1>2, Zenon DEF InvOK
    <2> QED  BY <2>7, <2>8, <2>9, <2>10, Zenon DEF IInv
  <1>3. CASE abc' = [abc EXCEPT !.pc = "aborted"] /\ UNCHANGED x
    <2>1. AbcOK'
      BY <1>1, <1>3, Zenon DEF AbcOK
    <2>2. InvOK'
      BY <1>1, <1>3, Zenon DEF InvOK
    <2> QED  BY <1>1, <1>3, <2>1, <2>2, Zenon DEF IInv, ChainOK
  <1> QED  BY <1>2, <1>3, Zenon DEF StepDisconnect

\* ConnectTip extends the active chain by one block of the clean chain.
LEMMA ConnectStep ==
    ASSUME IInv, StepConnect
    PROVE  IInv'
  <1> DEFINE b == NextToConnect
             m == abc.mostWork
  <1>1. /\ IndexType(x) /\ IndexOK(x) /\ AbcOK /\ ChainOK /\ InvOK /\ abc.pc = "step"
        /\ UNCHANGED inv /\ inv = NotInvalidating
        /\ m \in Block /\ m # x.tip /\ Clean(x, m)
        /\ x.tip \in BlockOrNone /\ x.tip \in Ancestors[m] \cup {NoBlock}
    BY Zenon DEF IInv, IndexOK, IndexType, AbcOK, InvOK, BlockOrNone, StepConnect, abcUnchanged
  <1>2. /\ b \in Ancestors[m]
        /\ IF x.tip = NoBlock THEN b = Genesis ELSE b # Genesis /\ Parent[b] = x.tip
    BY <1>1, NextIsChild, Zenon
  <1>3. \/ abc' = [abc EXCEPT !.pc = "aborted"] /\ UNCHANGED x
        \/ /\ b \notin Bad \cup Mutated /\ x' = TipConnected(x, b)
           /\ \/ abc' = [abc EXCEPT !.pc = "progress", !.newTip = b]
              \/ b # m /\ UNCHANGED abc
        \/ /\ x' = InvalidBlockFound(x, b)
           /\ abc' = [abc EXCEPT !.pc = "progress", !.newTip = x.tip, !.mostWork = NoBlock]
        \/ /\ UNCHANGED x
           /\ abc' = [abc EXCEPT !.pc = "progress", !.newTip = x.tip, !.mostWork = NoBlock]
    BY Zenon DEF StepConnect
  <1> HIDE DEF b
  <1>4. b \in Block /\ Clean(x, b) /\ Ancestors[b] \subseteq Ancestors[m]
    BY <1>1, <1>2, AncestorsEnds, AncestorsClosed, Zenon DEF Clean
  <1>5. b \notin Chain(x) /\ Ancestors[b] = {b} \cup Chain(x)
    <2>1. CASE x.tip = NoBlock
      BY <1>2, <2>1, AncestorsDef, Zenon DEF Chain
    <2>2. CASE x.tip # NoBlock
      <3>1. Height[b] = 1 + Height[x.tip] /\ Height[x.tip] \in Nat /\ Height[b] \in Nat
        BY <1>1, <1>2, <1>4, <2>2, HeightDef, Zenon DEF BlockOrNone
      <3>2. b \in Ancestors[x.tip] => b = x.tip \/ Height[b] < Height[x.tip]
        BY <1>1, <2>2, LowerBelow, Zenon DEF BlockOrNone
      <3>3. b \notin Ancestors[x.tip]
        BY <3>1, <3>2
      <3>4. Ancestors[b] = {b} \cup Ancestors[x.tip]
        BY <1>2, <1>4, <2>2, AncestorsDef, Zenon
      <3> QED  BY <2>2, <3>3, <3>4, Zenon DEF Chain
    <2> QED  BY <2>1, <2>2, Zenon
  <1>6. InvOK'
    BY <1>1, Zenon DEF InvOK
  <1>7. NoBlock \notin Chain(x) /\ NoBlock \notin Block
    BY <1>1, AncestorsEnds, AncestryAssumption, Zenon DEF Chain, BlockOrNone
  <1>8. CASE abc' = [abc EXCEPT !.pc = "aborted"] /\ UNCHANGED x
    <2>1. AbcOK'
      BY <1>1, <1>8, Zenon DEF AbcOK
    <2> QED  BY <1>1, <1>6, <1>8, <2>1, Zenon DEF IInv, ChainOK
  <1>9. CASE /\ b \notin Bad \cup Mutated /\ x' = TipConnected(x, b)
             /\ \/ abc' = [abc EXCEPT !.pc = "progress", !.newTip = b]
                \/ b # m /\ UNCHANGED abc
    <2>1. IndexOK(x') /\ x'.tip = b /\ Clean(x', m)
      BY <1>1, <1>4, <1>9, TipConnectedOK, Zenon
    <2>2. Chain(x') = Ancestors[b]
      BY <1>4, <1>7, <2>1, Zenon DEF Chain
    <2>3. ChainOK'
      BY <1>1, <1>5, <1>9, <2>2, Zenon DEF ChainOK
    <2>4. m \in Ancestors[b] => m = b
      <3>1. Height[b] \in Nat /\ Height[m] \in Nat
        BY <1>1, <1>4, HeightDef, Zenon
      <3>2. b = m \/ Height[b] < Height[m]
        BY <1>1, <1>2, LowerBelow, Zenon
      <3>3. m \in Ancestors[b] => m = b \/ Height[m] < Height[b]
        BY <1>4, LowerBelow, Zenon
      <3> QED  BY <3>1, <3>2, <3>3
    <2>5. AbcOK'
      <3>1. ASSUME abc' = [abc EXCEPT !.pc = "progress", !.newTip = b] PROVE AbcOK'
        BY <1>1, <1>4, <2>1, <2>2, <2>4, <3>1, Zenon DEF AbcOK, BlockOrNone
      <3>2. ASSUME b # m, UNCHANGED abc PROVE AbcOK'
        BY <1>1, <1>7, <2>1, <2>2, <2>4, <3>2, Zenon DEF AbcOK
      <3> QED  BY <1>9, <3>1, <3>2, Zenon
    <2> QED  BY <1>6, <2>1, <2>3, <2>5, Zenon DEF IInv
  <1>10. CASE abc' = [abc EXCEPT !.pc = "progress", !.newTip = x.tip, !.mostWork = NoBlock]
              /\ (x' = InvalidBlockFound(x, b) \/ UNCHANGED x)
    <2>1. IndexOK(x') /\ x'.tip = x.tip
      BY <1>1, <1>4, <1>5, <1>10, InvalidBlockFoundOK, Zenon
    <2>2. Chain(x') = Chain(x)
      BY <2>1 DEF Chain
    <2>3. ChainOK'
      BY <1>1, <2>2, Zenon DEF ChainOK
    <2>4. AbcOK'
      BY <1>1, <1>7, <1>10, <2>2, Zenon DEF AbcOK, BlockOrNone
    <2> QED  BY <1>6, <2>1, <2>3, <2>4, Zenon DEF IInv
  <1> QED  BY <1>3, <1>8, <1>9, <1>10, Zenon

LEMMA NextIInv == IInv /\ [Next]_vars => IInv'
  <1> SUFFICES ASSUME IInv, [Next]_vars PROVE IInv'
    BY Zenon
  <1>1. ASSUME NEW b \in Block \ {Genesis}, NewHeader(b) PROVE IInv'
    BY <1>1, NewHeaderStep, Zenon
  <1>2. ASSUME NEW b \in Block \ {Genesis}, NEW fRequested \in BOOLEAN, NewBlock(b, fRequested)
        PROVE  IInv'
    BY <1>2, NewBlockStep, Zenon
  <1>3. CASE Enter \/ LockMain \/ Progress
    BY <1>3, EnterStep, Zenon
  <1>4. CASE FindMostWork
    BY <1>4, FindStep, Zenon
  <1>5. CASE StepDisconnect
    BY <1>5, DisconnectStep, Zenon
  <1>6. CASE StepConnect
    BY <1>6, ConnectStep
  <1>7. CASE (\E b \in Invalidated : InvalidateBlock(b)) \/ InvalidateRound \/ InvalidateEnd
    BY <1>7, InvalidateStep, Zenon
  <1>8. ASSUME NEW b, (ReconsiderBlock(b) \/ MakePrecious(b) \/ Prune(b)) PROVE IInv'
    BY <1>8, CommandStep, Zenon
  <1>9. CASE Restart
    BY <1>9, RestartStep
  <1>10. CASE UNCHANGED vars
    <2>1. UNCHANGED <<x, abc, inv>>
      BY <1>10, Zenon DEF vars
    <2>2. IndexOK(x') /\ Keeps(x, x')
      BY <2>1, Zenon DEF IInv, Keeps
    <2> QED  BY <2>1, <2>2, OtherThread, Zenon
  <1> QED  BY <1>1, <1>2, <1>3, <1>4, <1>5, <1>6, <1>7, <1>8, <1>9, <1>10, Zenon
           DEF Next, ActivateBestChain

\* The active chain never holds a block that ContextualCheckBlock or ConnectBlock
\* refuses, that is marked as failed, or that was not received with all its ancestors,
\* at any time a thread can take cs_main: not after a reorganization that met an
\* invalid block, between two rounds of ActivateBestChain or InvalidateBlock, after
\* reconsiderblock or preciousblock, after pruning, or after a restart.
THEOREM ActiveChainIsValid == Spec => []ActiveChainValid
  <1>1. IInv => ActiveChainValid
    <2> SUFFICES ASSUME IInv, x.tip # NoBlock, NEW a \in Chain(x)
                 PROVE  /\ a \notin Bad \cup BadBody \cup Mutated
                        /\ x.failed[a] = {} /\ a \in x.linked
      BY Zenon DEF ActiveChainValid, Ready
    <2>1. IndexOK(x) /\ ChainOK
      BY Zenon DEF IInv
    <2>2. a \in x.linked /\ x.failed[a] = {}
      BY <2>1, Zenon DEF IndexOK, Clean, Chain
    <2>3. a \notin Bad \cup Mutated
      BY <2>1, Zenon DEF ChainOK
    <2>4. a \notin BadBody
      BY <2>1, <2>2, Zenon DEF IndexOK
    <2> QED  BY <2>2, <2>3, <2>4, Zenon
  <1> QED  BY <1>1, InitIInv, NextIInv, PTL DEF Spec
=============================================================================
