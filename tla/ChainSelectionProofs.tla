------------------------ MODULE ChainSelectionProofs ------------------------
(***************************************************************************)
(* That ActivateBestChain reaches the best chain and never leaves cs_main  *)
(* with a worse tip than it found, on a node that receives headers and     *)
(* blocks in any order, meets invalid ones, is told to invalidate blocks   *)
(* and is restarted.                                                       *)
(***************************************************************************)
EXTENDS ChainstateProofs

\* A node that does not prune, and whose operator does not use reconsiderblock and
\* preciousblock.  With those, a block that could be connected can be missing from
\* setBlockIndexCandidates: ResetBlockFailureFlags clears ancestors without adding
\* them, a pruned block has no data although it was linked, and a second
\* preciousblock on the tip can give it a greater nSequenceId than it had.
PlainNode == Reconsidered = {} /\ Precious = {} /\ Prunable = {}

-----------------------------------------------------------------------------
(* CBlockIndexWorkComparator *)

\* The comparator is a strict order in which any two blocks that do not sort before
\* a third one are on the same side of it.
LEMMA WorseOrder ==
    ASSUME NEW y, y.seq \in [Block -> Int], NEW a \in Block, NEW b \in Block, NEW c \in Block
    PROVE  /\ ~Worse(y, a, a)
           /\ Worse(y, a, b) /\ Worse(y, b, c) => Worse(y, a, c)
           /\ Worse(y, a, c) => Worse(y, a, b) \/ Worse(y, b, c)
           /\ ~Worse(y, a, b) => Work[b] <= Work[a]
           /\ Worse(y, a, b) => Work[a] <= Work[b]
  <1>1. /\ Work[a] \in Nat /\ Work[b] \in Nat /\ Work[c] \in Nat
        /\ y.seq[a] \in Int /\ y.seq[b] \in Int /\ y.seq[c] \in Int
        /\ Addr[a] \in Nat /\ Addr[b] \in Nat /\ Addr[c] \in Nat
    BY WorkDef, AddrAssumption, Zenon
  <1> QED  BY <1>1 DEF Worse

-----------------------------------------------------------------------------
(* The block index *)

\* The chain of b can be connected: it is all there, and none of it is marked.
Good(y, b) == \A a \in Ancestors[b] : a \in y.data /\ y.failed[a] = {}

\* No block at least as good as r whose chain can be connected is overlooked.
Complete(y, r) == \A b \in Block : Good(y, b) /\ ~Worse(y, b, r) => b \in y.candidates

\* What an index without pruned blocks has in addition: blocks that can be connected
\* are linked, and those that are not linked wait in m_blocks_unlinked, unless an
\* ancestor is marked.
IndexFull(y) ==
    /\ y.seq \in [Block -> Int]
    /\ y.data = y.processed /\ y.processed \subseteq y.known
    /\ \A b \in Block : Good(y, b) => b \in y.linked
    /\ \A d \in y.data \ y.linked :
           d \in y.unlinked \/ \E a \in Ancestors[d] : y.failed[a] # {}

\* z is y with more marks, fewer candidates that can be connected none among them.
Marked(y, z) ==
    /\ z.processed = y.processed /\ z.data = y.data /\ z.linked = y.linked
    /\ z.seq = y.seq /\ z.tip = y.tip
    /\ y.unlinked \subseteq z.unlinked /\ y.known \subseteq z.known
    /\ \A a \in Block : y.failed[a] \subseteq z.failed[a]
    /\ \A c \in y.candidates : Good(z, c) => c \in z.candidates

LEMMA GoodBelow ==
    ASSUME NEW y, NEW b \in Block, NEW a \in Ancestors[b], Good(y, b)
    PROVE  Good(y, a)
  BY AncestorsClosed, Zenon DEF Good

\* What marks leave of a complete index is complete.
LEMMA MarkedOK ==
    ASSUME NEW y, NEW z, IndexType(y), Marked(y, z), IndexFull(y)
    PROVE  /\ IndexFull(z)
           /\ \A b \in Block : Good(z, b) => Good(y, b)
           /\ \A r : Complete(y, r) => Complete(z, r)
  <1>1. ASSUME NEW b \in Block, Good(z, b) PROVE Good(y, b)
    <2>1. ASSUME NEW a \in Ancestors[b] PROVE a \in y.data /\ y.failed[a] = {}
      BY <1>1, AncestorsEnds, Zenon DEF Good, Marked
    <2> QED  BY <2>1, Zenon DEF Good
  <1>2. ASSUME NEW r, Complete(y, r) PROVE Complete(z, r)
    <2>1. ASSUME NEW b \in Block, Good(z, b), ~Worse(z, b, r) PROVE b \in z.candidates
      <3>1. ~Worse(y, b, r)
        BY <2>1, Zenon DEF Worse, Marked
      <3>2. b \in y.candidates
        BY <1>1, <1>2, <2>1, <3>1, Zenon DEF Complete
      <3> QED  BY <2>1, <3>2, Zenon DEF Marked
    <2> QED  BY <2>1, Zenon DEF Complete
  <1>3. IndexFull(z)
    <2>1. ASSUME NEW d \in z.data \ z.linked
          PROVE  d \in z.unlinked \/ \E a \in Ancestors[d] : z.failed[a] # {}
      <3>1. CASE d \in y.unlinked
        BY <3>1, Zenon DEF Marked
      <3>2. CASE \E a \in Ancestors[d] : y.failed[a] # {} /\ a \in Block
        BY <3>2, Zenon DEF Marked
      <3> QED  BY <2>1, <3>1, <3>2, AncestorsEnds, Zenon DEF IndexFull, Marked, IndexType
    <2> QED  BY <1>1, <2>1, Zenon DEF IndexFull, Marked
  <1> QED  BY <1>1, <1>2, <1>3, Zenon

LEMMA MarkFailedMarked ==
    ASSUME NEW y, IndexType(y), NEW M, NEW flag \in FailedMask
    PROVE  Marked(y, MarkFailed(y, M, flag))
  <1> DEFINE z == MarkFailed(y, M, flag)
  <1>1. /\ z.known = y.known /\ z.processed = y.processed /\ z.data = y.data
        /\ z.linked = y.linked /\ z.seq = y.seq /\ z.unlinked = y.unlinked
        /\ z.candidates = y.candidates /\ z.tip = y.tip
        /\ \A b \in Block : z.failed[b] = IF b \in M THEN y.failed[b] \cup {flag}
                                                     ELSE y.failed[b]
    BY Zenon DEF MarkFailed, IndexType, FailedMask
  <1> HIDE DEF z
  <1>2. Marked(y, z)
    BY <1>1, Zenon DEF Marked
  <1> QED  BY <1>2, Zenon DEF z

LEMMA HeaderMarked ==
    ASSUME NEW y, IndexType(y), NEW b \in Block \ {Genesis}
    PROVE  /\ Marked(y, AcceptBlockHeader(y, b))
           /\ HeaderAccepted(y, b) => b \in AcceptBlockHeader(y, b).known
  <1> DEFINE z == AcceptBlockHeader(y, b)
             bad == FailedAncestors(y, Parent[b])
             f == CHOOSE f \in bad : \A g \in bad : Addr[f] <= Addr[g]
             M == Ancestors[Parent[b]] \ Ancestors[f]
  <1>1. \/ z = y /\ (HeaderAccepted(y, b) => b \in y.known)
        \/ z = [y EXCEPT !.known = @ \cup {b}]
        \/ ~HeaderAccepted(y, b) /\ z = MarkFailed(y, M, "CHILD")
    BY Zenon DEF AcceptBlockHeader, HeaderAccepted
  <1> HIDE DEF z, M
  <1>2. CASE z = y /\ (HeaderAccepted(y, b) => b \in y.known)
    <2>1. Marked(y, z)
      BY <1>2, Zenon DEF Marked
    <2> QED  BY <1>2, <2>1, Zenon DEF z
  <1>3. CASE z = [y EXCEPT !.known = @ \cup {b}]
    <2>1. /\ z.known = y.known \cup {b} /\ z.processed = y.processed /\ z.data = y.data
          /\ z.linked = y.linked /\ z.unlinked = y.unlinked /\ z.failed = y.failed
          /\ z.candidates = y.candidates /\ z.tip = y.tip /\ z.seq = y.seq
      BY <1>3, Zenon DEF IndexType
    <2>2. Marked(y, z)
      BY <2>1, Zenon DEF Marked
    <2> QED  BY <2>1, <2>2, Zenon DEF z
  <1>4. CASE ~HeaderAccepted(y, b) /\ z = MarkFailed(y, M, "CHILD")
    <2>1. "CHILD" \in FailedMask
      BY Zenon DEF FailedMask
    <2>2. Marked(y, z)
      BY <1>4, <2>1, MarkFailedMarked, Zenon
    <2> QED  BY <1>4, <2>2, Zenon DEF z
  <1> QED  BY <1>1, <1>2, <1>3, <1>4, Zenon

\* Without pruned blocks FindMostWorkChain gives up a candidate for a failed block only.
LEMMA DropMarked ==
    ASSUME NEW y, IndexOK(y), IndexFull(y), NEW c \in y.candidates, Unusable(y, c) # {}
    PROVE  Marked(y, DropCandidate(y, c)) /\ DropCandidate(y, c).known = y.known
  <1> DEFINE bad   == Unusable(y, c)
             t     == CHOOSE t \in bad : \A a \in bad : Height[a] <= Height[t]
             above == Ancestors[c] \ Ancestors[t]
             w     == [y EXCEPT !.candidates = @ \ (above \cup {t})]
             z     == DropCandidate(y, c)
  <1>1. IndexType(y) /\ c \in Block /\ Ancestors[c] \subseteq y.linked
    BY Zenon DEF IndexOK, IndexType
  <1>2. bad \subseteq Ancestors[c] /\ bad # {}
    BY Zenon DEF Unusable
  <1>3. t \in bad
    <2>1. \E u \in bad : \A a \in bad : Height[a] <= Height[u]
      BY <1>1, <1>2, HighestBelow, Zenon
    <2> QED  BY <2>1, Zenon
  <1>4. z = IF y.failed[t] # {} THEN MarkFailed(w, above, "CHILD")
            ELSE [w EXCEPT !.unlinked = @ \cup above]
    BY Zenon DEF DropCandidate
  <1> HIDE DEF t, z
  <1>5. t \in Ancestors[c] /\ t \in Block /\ y.failed[t] # {}
    BY <1>1, <1>2, <1>3, AncestorsEnds, Zenon DEF Unusable, IndexOK, IndexFull
  <1>6. ASSUME NEW d \in above \cup {t} PROVE d \in Block /\ t \in Ancestors[d]
    BY <1>1, <1>5, AncestorsEnds, InARow, Zenon
  <1> HIDE DEF above
  <1>7. /\ IndexType(w)
        /\ w.known = y.known /\ w.processed = y.processed /\ w.data = y.data
        /\ w.linked = y.linked /\ w.failed = y.failed /\ w.seq = y.seq
        /\ w.unlinked = y.unlinked /\ w.tip = y.tip
        /\ w.candidates = y.candidates \ (above \cup {t})
    BY <1>1, Zenon DEF IndexType, BlockOrNone
  <1> HIDE DEF w
  <1>8. Marked(w, z) /\ z.known = w.known
    <2>1. "CHILD" \in FailedMask
      BY Zenon DEF FailedMask
    <2>2. z = MarkFailed(w, above, "CHILD")
      BY <1>4, <1>5, Zenon
    <2>3. z.known = w.known
      BY <1>7, <2>2, Zenon DEF MarkFailed, IndexType
    <2> QED  BY <1>7, <2>1, <2>2, <2>3, MarkFailedMarked, Zenon
  <1>9. ASSUME NEW d \in y.candidates, Good(z, d) PROVE d \in z.candidates
    <2>1. d \notin above \cup {t}
      BY <1>5, <1>6, <1>7, <1>8, <1>9, Zenon DEF Good, Marked
    <2> QED  BY <1>7, <1>8, <1>9, <2>1, Zenon DEF Marked
  <1>10. Marked(y, z)
    BY <1>7, <1>8, <1>9, Zenon DEF Marked
  <1> QED  BY <1>7, <1>8, <1>10, Zenon DEF z

LEMMA InvalidFoundMarked ==
    ASSUME NEW y, IndexType(y), NEW b \in Block
    PROVE  /\ Marked(y, InvalidBlockFound(y, b))
           /\ InvalidBlockFound(y, b).known = y.known
           /\ \A a \in Block \ {b} : InvalidBlockFound(y, b).failed[a] = y.failed[a]
           /\ ~Good(InvalidBlockFound(y, b), b)
  <1> DEFINE w == MarkFailed(y, {b}, "VALID")
             z == InvalidBlockFound(y, b)
  <1>1. "VALID" \in FailedMask
    BY Zenon DEF FailedMask
  <1>2. /\ IndexType(w) /\ w.known = y.known
        /\ \A a \in Block : w.failed[a] = IF a \in {b} THEN y.failed[a] \cup {"VALID"}
                                                       ELSE y.failed[a]
    BY <1>1, Zenon DEF MarkFailed, IndexType, FailedMask, BlockOrNone
  <1>3. Marked(y, w)
    BY <1>1, MarkFailedMarked, Zenon
  <1>4. z = [w EXCEPT !.failedBlocks = @ \cup {b}, !.candidates = @ \ {b}]
    BY Zenon DEF InvalidBlockFound
  <1> HIDE DEF w, z
  <1>5. /\ z.known = w.known /\ z.processed = w.processed /\ z.data = w.data
        /\ z.linked = w.linked /\ z.failed = w.failed /\ z.seq = w.seq
        /\ z.unlinked = w.unlinked /\ z.tip = w.tip
        /\ z.candidates = w.candidates \ {b}
    BY <1>2, <1>4, Zenon DEF IndexType
  <1>6. ~Good(z, b) /\ \A c : Good(z, c) => Good(w, c)
    BY <1>2, <1>5, AncestorsEnds, Zenon DEF Good
  <1>7. Marked(y, z)
    BY <1>3, <1>5, <1>6, Zenon DEF Marked
  <1>8. \A a \in Block \ {b} : z.failed[a] = y.failed[a]
    BY <1>2, <1>5, Zenon
  <1> QED  BY <1>2, <1>5, <1>6, <1>7, <1>8, Zenon DEF z

\* The numbers NewlyLinked blocks get are integers.
LEMMA NumberingInt ==
    ASSUME NEW blocks, NEW n, NEW numbering \in Numberings(blocks, n)
    PROVE  /\ DOMAIN numbering = blocks
           /\ \A c \in blocks : numbering[c] \in Int
  <1>1. numbering \in [blocks -> n..(n + Cardinality(blocks) - 1)]
    BY Zenon DEF Numberings
  <1>2. \A i \in n..(n + Cardinality(blocks) - 1) : i \in Int
    OBVIOUS
  <1> QED  BY <1>1, <1>2, Zenon

\* ReceivedBlockTransactions links every block that could be connected only for b:
\* those above b have waited in m_blocks_unlinked.
LEMMA ReceivedFull ==
    ASSUME NEW y, IndexOK(y), IndexFull(y), NEW b \in Block \ {Genesis},
           b \in y.known, b \notin y.data, NEW n,
           NEW numbering \in Numberings(NewlyLinked(y, b), n), y.tip \in Block
    PROVE  LET z == ReceivedBlockTransactions(y, b, numbering) IN
           /\ IndexFull(z) /\ z.tip = y.tip
           /\ Complete(y, y.tip) => Complete(z, y.tip)
  <1> DEFINE z    == ReceivedBlockTransactions(y, b, numbering)
             new  == NewlyLinked(y, b)
             seqs == [c \in Block |-> IF c \in new THEN numbering[c] ELSE y.seq[c]]
             w    == [y EXCEPT !.processed = @ \cup {b},
                               !.data      = @ \cup {b},
                               !.linked    = (@ \ {b}) \cup new,
                               !.seq       = seqs]
             add  == {c \in new : y.tip = NoBlock \/ ~Worse(w, c, y.tip)}
  <1>1. /\ IndexType(y) /\ Parent[b] \in Block /\ b \in Ancestors[b]
        /\ Parent[b] \in Ancestors[b] /\ b \notin y.processed /\ b \notin y.linked
        /\ y.data = y.processed
    BY AncestryAssumption, AncestorsEnds, ParentBelow, Zenon DEF IndexOK, IndexFull
  <1>2. DOMAIN numbering = new /\ \A c \in new : numbering[c] \in Int
    BY NumberingInt, Zenon
  <1>3. /\ w.seq = seqs
        /\ z.known = y.known /\ z.seq = seqs
        /\ z.processed = y.processed \cup {b} /\ z.data = y.data \cup {b}
        /\ z.linked = (y.linked \ {b}) \cup new /\ z.failed = y.failed
        /\ z.tip = y.tip
        /\ z.candidates = y.candidates \cup add
        /\ z.unlinked = IF new # {} THEN y.unlinked \ (new \ {b})
                        ELSE IF y.failed[Parent[b]] = {} THEN y.unlinked \cup {b}
                        ELSE y.unlinked
    BY <1>1, <1>2 DEF IndexType, ReceivedBlockTransactions
  <1>4. seqs \in [Block -> Int]
    BY <1>2, Zenon DEF IndexFull
  <1>5. ASSUME NEW c \in new PROVE b \in Ancestors[c]
    BY Zenon DEF NewlyLinked
  <1>6. \A c \in Block \ new : seqs[c] = y.seq[c]
    BY Zenon
  <1> HIDE DEF z, w, seqs
  <1>7. ASSUME NEW c \in Block, Good(z, c), b \notin Ancestors[c] PROVE Good(y, c)
    BY <1>3, <1>7, Zenon DEF Good
  <1>8. ASSUME NEW c \in Block, Good(z, c), b \in Ancestors[c] PROVE c \in new
    <2>1. Good(z, Parent[b])
      BY <1>1, <1>8, GoodBelow, AncestorsClosed, Zenon
    <2>2. b \notin Ancestors[Parent[b]]
      <3>1. Height[b] = 1 + Height[Parent[b]] /\ Height[Parent[b]] \in Nat /\ Height[b] \in Nat
        BY <1>1, HeightDef, Zenon
      <3>2. b \in Ancestors[Parent[b]] => b = Parent[b] \/ Height[b] < Height[Parent[b]]
        BY <1>1, LowerBelow, Zenon
      <3> QED  BY <3>1, <3>2
    <2>3. Parent[b] \in y.linked
      BY <1>1, <1>7, <2>1, <2>2, Zenon DEF IndexFull
    <2>4. ASSUME NEW d \in Ancestors[c] \ Ancestors[b] PROVE d \in y.unlinked
      <3>1. d \in Block /\ b \in Ancestors[d]
        BY <1>8, AncestorsEnds, InARow, Zenon
      <3>2. d \notin y.linked
        BY <1>1, <3>1, Zenon DEF IndexOK
      <3>3. d # b /\ d \in y.data
        BY <1>1, <1>3, <1>8, Zenon DEF Good
      <3>4. \A a \in Ancestors[d] : y.failed[a] = {}
        BY <1>3, <1>8, AncestorsClosed, Zenon DEF Good
      <3> QED  BY <3>2, <3>3, <3>4, Zenon DEF IndexFull
    <2>5. c \in {b} \cup y.unlinked
      <3>1. CASE c \in Ancestors[b]
        <4>1. Height[b] \in Nat /\ Height[c] \in Nat
          BY HeightDef, Zenon
        <4>2. c = b \/ Height[c] < Height[b]
          BY <3>1, LowerBelow, Zenon
        <4>3. b = c \/ Height[b] < Height[c]
          BY <1>8, LowerBelow, Zenon
        <4> QED  BY <4>1, <4>2, <4>3
      <3>2. CASE c \notin Ancestors[b]
        BY <2>4, <3>2, AncestorsEnds, Zenon
      <3> QED  BY <3>1, <3>2, Zenon
    <2> QED  BY <1>8, <2>3, <2>4, <2>5, Zenon DEF NewlyLinked
  <1>9. IndexFull(z)
    <2>1. ASSUME NEW c \in Block, Good(z, c) PROVE c \in z.linked
      <3>1. CASE b \notin Ancestors[c]
        BY <1>1, <1>3, <1>7, <2>1, <3>1, AncestorsEnds, Zenon DEF IndexFull
      <3>2. CASE b \in Ancestors[c]
        BY <1>3, <1>8, <2>1, <3>2, Zenon
      <3> QED  BY <3>1, <3>2, Zenon
    <2>2. ASSUME NEW d \in z.data \ z.linked
          PROVE  d \in z.unlinked \/ \E a \in Ancestors[d] : z.failed[a] # {}
      <3>1. CASE d = b
        <4>1. new = {}
          BY <1>1, <1>3, <2>2, <3>1, Zenon DEF NewlyLinked
        <4> QED  BY <1>1, <1>3, <3>1, <4>1, Zenon
      <3>2. CASE d # b
        <4>1. d \in y.data \ y.linked /\ d \notin new
          BY <1>3, <2>2, <3>2, Zenon
        <4>2. d \in y.unlinked => d \in z.unlinked
          BY <1>3, <4>1, Zenon
        <4> QED  BY <1>3, <4>1, <4>2, Zenon DEF IndexFull
      <3> QED  BY <3>1, <3>2, Zenon
    <2> QED  BY <1>1, <1>3, <1>4, <2>1, <2>2, Zenon DEF IndexFull
  <1>10. ASSUME Complete(y, y.tip), NEW c \in Block, Good(z, c), ~Worse(z, c, y.tip)
         PROVE  c \in z.candidates
    <2>1. CASE b \notin Ancestors[c]
      <3>1. c \notin new /\ y.tip \notin new
        <4>1. Ancestors[y.tip] \subseteq y.processed
          BY AncestryAssumption, Zenon DEF IndexOK, Clean
        <4> QED  BY <1>1, <1>5, <2>1, <4>1, Zenon
      <3>2. z.seq[c] = y.seq[c] /\ z.seq[y.tip] = y.seq[y.tip]
        BY <1>3, <1>6, <3>1
      <3>3. ~Worse(y, c, y.tip)
        BY <1>10, <3>2, Zenon DEF Worse
      <3>4. c \in y.candidates
        BY <1>7, <1>10, <2>1, <3>3, Zenon DEF Complete
      <3> QED  BY <1>3, <3>4, Zenon
    <2>2. CASE b \in Ancestors[c]
      <3>1. c \in new
        BY <1>8, <1>10, <2>2, Zenon
      <3>2. ~Worse(w, c, y.tip)
        BY <1>3, <1>10, Zenon DEF Worse
      <3> QED  BY <1>3, <3>1, <3>2, Zenon
    <2> QED  BY <2>1, <2>2, Zenon
  <1>11. Complete(y, y.tip) => Complete(z, y.tip)
    BY <1>10, Zenon DEF Complete
  <1> QED  BY <1>3, <1>9, <1>11, Zenon DEF z

\* An operation that changes at most the tip and the candidates.
LEMMA SameBlocksFull ==
    ASSUME NEW y, IndexFull(y), NEW z,
           z.known = y.known, z.processed = y.processed, z.data = y.data,
           z.linked = y.linked, z.failed = y.failed, z.seq = y.seq, z.unlinked = y.unlinked
    PROVE  /\ IndexFull(z)
           /\ \A b : Good(z, b) <=> Good(y, b)
           /\ \A a, b : Worse(z, a, b) <=> Worse(y, a, b)
  <1>1. \A b : Good(z, b) <=> Good(y, b)
    BY Zenon DEF Good
  <1> QED  BY <1>1, Zenon DEF IndexFull, Worse

LEMMA TipConnectedFields ==
    ASSUME NEW y, IndexType(y), NEW b \in Block
    PROVE  LET z == TipConnected(y, b) IN
           /\ z.known = y.known /\ z.processed = y.processed /\ z.data = y.data
           /\ z.linked = y.linked /\ z.failed = y.failed /\ z.seq = y.seq
           /\ z.unlinked = y.unlinked /\ z.tip = b
           /\ \A c : c \in z.candidates <=> c \in y.candidates /\ ~Worse(y, c, b)
  <1> DEFINE S == IF b = Genesis \/ y.failed[b] # {} THEN y.scripts ELSE y.scripts \cup {b}
             w == [y EXCEPT !.tip = b, !.scripts = S]
             z == TipConnected(y, b)
  <1>1. z = PruneBlockIndexCandidates(w)
    BY Zenon DEF TipConnected
  <1> HIDE DEF S
  <1>2. /\ IndexType(w) /\ w.known = y.known /\ w.seq = y.seq
        /\ w.processed = y.processed /\ w.data = y.data
        /\ w.linked = y.linked /\ w.failed = y.failed
        /\ w.unlinked = y.unlinked /\ w.tip = b /\ w.candidates = y.candidates
    BY Zenon DEF IndexType, BlockOrNone
  <1> HIDE DEF w, z
  <1>3. /\ z.known = y.known /\ z.processed = y.processed /\ z.data = y.data
        /\ z.linked = y.linked /\ z.failed = y.failed /\ z.seq = y.seq
        /\ z.unlinked = y.unlinked /\ z.tip = b
        /\ z.candidates = {c \in y.candidates : ~Worse(w, c, b)}
    BY <1>1, <1>2, PruneCandidatesFields
  <1>4. \A c : Worse(w, c, b) <=> Worse(y, c, b)
    BY <1>2, Zenon DEF Worse
  <1> QED  BY <1>3, <1>4, Zenon DEF z

\* What PruneBlockIndexCandidates removes when b becomes the tip is worse than r, or
\* the tip is no longer worse than r.
LEMMA TipConnectedComplete ==
    ASSUME NEW y, IndexType(y), IndexFull(y), NEW b \in Block, NEW r \in Block, Complete(y, r)
    PROVE  /\ Worse(y, b, r) => Complete(TipConnected(y, b), r)
           /\ ~Worse(y, b, r) => Complete(TipConnected(y, b), b)
  <1> DEFINE z == TipConnected(y, b)
  <1>1. /\ z.known = y.known /\ z.processed = y.processed /\ z.data = y.data
        /\ z.linked = y.linked /\ z.failed = y.failed /\ z.seq = y.seq
        /\ z.unlinked = y.unlinked /\ z.tip = b
        /\ \A c : c \in z.candidates <=> c \in y.candidates /\ ~Worse(y, c, b)
    BY TipConnectedFields, Zenon
  <1> HIDE DEF z
  <1>2. /\ \A c : Good(z, c) <=> Good(y, c)
        /\ \A a, c : Worse(z, a, c) <=> Worse(y, a, c)
    BY <1>1, SameBlocksFull, Zenon
  <1>3. ASSUME NEW c \in Block, Good(y, c), ~Worse(y, c, r), ~Worse(y, c, b)
        PROVE  c \in z.candidates
    BY <1>1, <1>3, Zenon DEF Complete
  <1>4. y.seq \in [Block -> Int]
    BY Zenon DEF IndexFull
  <1>5. ASSUME Worse(y, b, r) PROVE Complete(z, r)
    <2>1. ASSUME NEW c \in Block, Good(z, c), ~Worse(z, c, r) PROVE c \in z.candidates
      <3>1. ~Worse(y, c, r) /\ Good(y, c)
        BY <1>2, <2>1, Zenon
      <3>2. Worse(y, c, b) => Worse(y, c, r)
        BY <1>4, <1>5, WorseOrder, Zenon
      <3> QED  BY <1>3, <3>1, <3>2, Zenon
    <2> QED  BY <2>1, Zenon DEF Complete
  <1>6. ASSUME ~Worse(y, b, r) PROVE Complete(z, b)
    <2>1. ASSUME NEW c \in Block, Good(z, c), ~Worse(z, c, b) PROVE c \in z.candidates
      <3>1. ~Worse(y, c, b) /\ Good(y, c)
        BY <1>2, <2>1, Zenon
      <3>2. Worse(y, c, r) => Worse(y, c, b) \/ Worse(y, b, r)
        BY <1>4, WorseOrder, Zenon
      <3> QED  BY <1>3, <1>6, <3>1, <3>2, Zenon
    <2> QED  BY <2>1, Zenon DEF Complete
  <1> QED  BY <1>5, <1>6, Zenon DEF z

\* The search at the end of InvalidateBlock finds every candidate.
LEMMA InvalidateDoneFull ==
    ASSUME NEW y, IndexOK(y), IndexFull(y), NEW mark \in Block
    PROVE  /\ IndexFull(InvalidateDone(y, mark))
           /\ Complete(InvalidateDone(y, mark), y.tip)
  <1> DEFINE w == InvalidBlockFound(y, mark)
             C == {c \in w.known : Eligible(w, c) /\ ~Worse(w, c, w.tip)}
             z == InvalidateDone(y, mark)
  <1>1. z = [w EXCEPT !.candidates = @ \cup C]
    BY Zenon DEF InvalidateDone, InvalidBlockFound
  <1>2. IndexType(y) /\ IndexType(w)
    BY DEF IndexOK, IndexType, InvalidBlockFound, MarkFailed, FailedMask, BlockOrNone
  <1>3. Marked(y, w)
    BY <1>2, InvalidFoundMarked, Zenon
  <1>4. IndexFull(w)
    BY <1>2, <1>3, MarkedOK, Zenon
  <1> HIDE DEF w, z
  <1>5. \A c \in w.known : Eligible(w, c) /\ ~Worse(w, c, w.tip) => c \in C
    BY Zenon
  <1> HIDE DEF C
  <1>6. /\ z.known = w.known /\ z.processed = w.processed /\ z.data = w.data
        /\ z.linked = w.linked /\ z.failed = w.failed /\ z.seq = w.seq
        /\ z.unlinked = w.unlinked /\ z.tip = w.tip
        /\ z.candidates = w.candidates \cup C
    BY <1>1, <1>2, Zenon DEF IndexType
  <1>7. /\ IndexFull(z)
        /\ \A c : Good(z, c) <=> Good(w, c)
        /\ \A a, c : Worse(z, a, c) <=> Worse(w, a, c)
    BY <1>4, <1>6, SameBlocksFull, Zenon
  <1>8. ASSUME NEW c \in Block, Good(z, c), ~Worse(z, c, y.tip) PROVE c \in z.candidates
    <2>1. Good(w, c) /\ ~Worse(w, c, w.tip)
      BY <1>3, <1>7, <1>8, Zenon DEF Marked
    <2>2. c \in w.data /\ w.failed[c] = {}
      BY <2>1, AncestorsEnds, Zenon DEF Good
    <2>3. c \in w.known /\ Eligible(w, c)
      BY <1>4, <2>1, <2>2, Zenon DEF IndexFull, Eligible
    <2> QED  BY <1>5, <1>6, <2>1, <2>3, Zenon
  <1>9. Complete(z, y.tip)
    BY <1>8, Zenon DEF Complete
  <1> QED  BY <1>7, <1>9, Zenon DEF z

LEMMA InvalidateTipFull ==
    ASSUME NEW y, IndexOK(y), IndexFull(y), y.tip \in Block \ {Genesis}, NEW mark \in Block,
           NEW byWork \in SUBSET y.linked
    PROVE  IndexFull(InvalidateTip(y, mark, byWork))
  <1> DEFINE z == InvalidateTip(y, mark, byWork)
  <1>1. /\ z.known = y.known /\ z.processed = y.processed /\ z.data = y.data
        /\ z.linked = y.linked /\ z.seq = y.seq /\ z.unlinked = y.unlinked
        /\ \A b \in Block : y.failed[b] \subseteq z.failed[b]
    BY InvalidateTipOK
  <1> HIDE DEF z
  <1>2. ASSUME NEW b \in Block, Good(z, b) PROVE b \in z.linked
    <2>1. Good(y, b)
      BY <1>1, <1>2, AncestorsEnds, Zenon DEF Good
    <2> QED  BY <1>1, <2>1, Zenon DEF IndexFull
  <1>3. ASSUME NEW d \in z.data \ z.linked
        PROVE  d \in z.unlinked \/ \E a \in Ancestors[d] : z.failed[a] # {}
    <2>1. d \in Block /\ Ancestors[d] \subseteq Block
      BY <1>1, AncestorsEnds, Zenon DEF IndexOK, IndexType
    <2>2. d \in y.unlinked \/ \E a \in Ancestors[d] : y.failed[a] # {}
      BY <1>1, Zenon DEF IndexFull
    <2> QED  BY <1>1, <2>1, <2>2, Zenon
  <1>4. IndexFull(z)
    BY <1>1, <1>2, <1>3, Zenon DEF IndexFull
  <1> QED  BY <1>4, Zenon DEF z

\* LoadBlockIndex finds the links, the blocks that wait and the candidates anew.
LEMMA LoadFull ==
    ASSUME NEW y, IndexOK(y), IndexFull(y), y.tip # NoBlock
    PROVE  IndexFull(LoadBlockIndex(y)) /\ Complete(LoadBlockIndex(y), y.tip)
  <1> DEFINE up(b)    == Ancestors[b] \ {b}
             fails(b) == \E a \in up(b) : y.failed[a] # {}
             links(b) == Ancestors[b] \subseteq y.processed
             F == [b \in Block |-> IF b \in y.known /\ y.failed[b] = {} /\ fails(b)
                                  THEN {"CHILD"} ELSE y.failed[b]]
             Q == [b \in Block |-> 0]
             L == {b \in y.processed : links(b)}
             U == {b \in y.processed \ {Genesis} : ~links(Parent[b])}
             w == [y EXCEPT !.failed = F, !.seq = Q, !.linked = L, !.unlinked = U,
                            !.failedBlocks = {}]
             C == {b \in w.known : Eligible(w, b)}
             v == [w EXCEPT !.candidates = C]
             z == LoadBlockIndex(y)
  <1>1. z = PruneBlockIndexCandidates(v)
    BY Zenon DEF LoadBlockIndex
  <1>2. IndexType(y) /\ y.tip \in Block /\ y.data = y.processed /\ y.processed \subseteq y.known
    BY Zenon DEF IndexOK, IndexType, IndexFull, BlockOrNone
  <1>3. F \in [Block -> SUBSET FailedMask]
    <2>1. "CHILD" \in FailedMask
      BY Zenon DEF FailedMask
    <2> QED  BY <1>2, <2>1, Zenon DEF IndexType
  <1>4. /\ L \subseteq Block /\ U \subseteq Block /\ Q \in [Block -> Int]
        /\ \A b \in y.processed : Ancestors[b] \subseteq y.processed => b \in L
    BY <1>2 DEF IndexType
  <1>5. ASSUME NEW d \in y.processed \ L PROVE d \in U
    <2>1. d # Genesis
      <3>1. Genesis \in y.processed
        BY <1>2, AncestorsEnds, AncestryAssumption, Zenon DEF IndexOK, Clean
      <3> QED  BY <3>1, AncestorsDef, Zenon
    <2>2. d \in Block /\ Ancestors[d] = {d} \cup Ancestors[Parent[d]]
      BY <1>2, <2>1, AncestorsDef, Zenon DEF IndexType
    <2> QED  BY <2>1, <2>2, Zenon
  <1> HIDE DEF F, L, U, Q
  <1>6. /\ IndexType(w) /\ w.known = y.known
        /\ w.processed = y.processed /\ w.data = y.data
        /\ w.linked = L /\ w.failed = F /\ w.seq = Q
        /\ w.unlinked = U /\ w.tip = y.tip
    BY <1>2, <1>3, <1>4, Zenon DEF IndexType, BlockOrNone
  <1> HIDE DEF w, z
  <1>7. C \subseteq Block /\ \A b \in w.known : Eligible(w, b) => b \in C
    BY <1>6, Zenon DEF IndexType
  <1> HIDE DEF C
  <1>8. /\ IndexType(v) /\ v.known = y.known
        /\ v.processed = y.processed /\ v.data = y.data
        /\ v.linked = L /\ v.failed = F /\ v.seq = Q
        /\ v.unlinked = U /\ v.tip = y.tip
        /\ v.candidates = C
    BY <1>6, <1>7, Zenon DEF IndexType, BlockOrNone
  <1> HIDE DEF v
  <1>9. /\ z.known = y.known /\ z.processed = y.processed /\ z.data = y.data
        /\ z.linked = L /\ z.failed = F /\ z.seq = Q
        /\ z.unlinked = U /\ z.tip = y.tip
        /\ z.candidates = {c \in C : ~Worse(v, c, y.tip)}
    BY <1>1, <1>8, PruneCandidatesFields
  <1>10. ASSUME NEW b \in Block, Good(z, b)
         PROVE  b \in L /\ b \in y.processed /\ F[b] = {}
    <2>1. Ancestors[b] \subseteq y.processed /\ b \in Ancestors[b] /\ F[b] = {}
      BY <1>2, <1>9, <1>10, AncestorsEnds, Zenon DEF Good
    <2> QED  BY <1>4, <2>1, Zenon
  <1>11. IndexFull(z)
    BY <1>2, <1>4, <1>5, <1>9, <1>10, Zenon DEF IndexFull
  <1>12. ASSUME NEW b \in Block, Good(z, b), ~Worse(z, b, y.tip) PROVE b \in z.candidates
    <2>1. b \in w.known /\ Eligible(w, b)
      BY <1>2, <1>6, <1>10, <1>12, Zenon DEF Eligible
    <2>2. ~Worse(v, b, y.tip)
      BY <1>8, <1>9, <1>12, Zenon DEF Worse
    <2> QED  BY <1>7, <1>9, <2>1, <2>2, Zenon
  <1>13. Complete(z, y.tip)
    BY <1>12, Zenon DEF Complete
  <1> QED  BY <1>11, <1>13, Zenon DEF z

-----------------------------------------------------------------------------
(* The threads *)

\* ActivateBestChain holds cs_main.
Holding == abc.pc \in {"find", "step", "progress"}

\* No chain that can be connected has more work than r.
NoneBetter(r) == \A b \in Block : Good(x, b) => Work[b] <= Work[r]

\* While cs_main is free no candidate is missing.
FreeOK == csMainFree /\ inv = NotInvalidating /\ x.tip # NoBlock => Complete(x, x.tip)

\* Before the first block is connected the genesis block is all there is.
FirstOK ==
    /\ x.tip = NoBlock => abc.starting = NoBlock
    /\ x.tip = NoBlock \/ (Holding /\ abc.starting = NoBlock) =>
           x.known = {Genesis} /\ (Good(x, Genesis) => Genesis \in x.candidates)

\* The tip ActivateBestChain found can be returned to until the tip is as good: until
\* then no candidate as good as the old tip is missing, and after that none as good
\* as the new one.
HoldOK ==
    Holding /\ abc.starting # NoBlock =>
        /\ Good(x, abc.starting)
        /\ Ancestors[abc.starting] \cap (Bad \cup Mutated) = {}
        /\ abc.mostWork # NoBlock => ~Worse(x, abc.mostWork, abc.starting)
        /\ \/ Complete(x, abc.starting)
           \/ /\ abc.pc # "find" /\ ~Worse(x, x.tip, abc.starting) /\ Complete(x, x.tip)
              /\ abc.pc = "step" => x.tip \in Ancestors[abc.mostWork]

\* What the locals of ActivateBestChain say of the tip.
LocalsOK ==
    /\ abc.pc = "outer" /\ abc.mostWork # NoBlock => x.tip \in Ancestors[abc.mostWork] \ {abc.mostWork}
    /\ abc.pc = "find" => /\ abc.mostWork # NoBlock => abc.mostWork # x.tip
                          /\ abc.connected => abc.newTip = x.tip
                          /\ abc.starting = NoBlock => x.tip = NoBlock
    /\ abc.pc = "progress" => /\ abc.newTip = x.tip
                              /\ abc.mostWork # NoBlock => x.tip \in Ancestors[abc.mostWork]

\* Unless another call is due, the chosen tip and the tip after the call are the best.
BestOK ==
    ~pending => /\ abc.mostWork # NoBlock => NoneBetter(abc.mostWork)
                /\ chainstateFree /\ x.tip # NoBlock => NoneBetter(x.tip)

\* The inductive invariant, on top of IInv.
BInv == IndexFull(x) /\ FreeOK /\ FirstOK /\ HoldOK /\ LocalsOK /\ BestOK

LEMMA InitBInv == Init => BInv
  <1> SUFFICES ASSUME Init PROVE BInv
    BY Zenon
  <1>1. /\ x.known = {Genesis} /\ x.processed = {Genesis} /\ x.data = {Genesis}
        /\ x.linked = {Genesis} /\ x.seq = [b \in Block |-> IF b = Genesis THEN 1 ELSE 0]
        /\ x.candidates = {Genesis} /\ x.tip = NoBlock
        /\ abc = NotRunning /\ inv = NotInvalidating /\ pending = TRUE
    BY Zenon DEF Init
  <1>2. abc.pc = "outside" /\ abc.mostWork = NoBlock /\ abc.starting = NoBlock
    BY <1>1, Zenon DEF NotRunning
  <1>3. IndexFull(x)
    <2>1. ASSUME NEW b \in Block, Good(x, b) PROVE b \in x.linked
      BY <1>1, <2>1, AncestorsEnds, Zenon DEF Good
    <2> QED  BY <1>1, <2>1 DEF IndexFull
  <1>4. FreeOK /\ FirstOK /\ BestOK
    BY <1>1, <1>2, Zenon DEF FreeOK, FirstOK, BestOK
  <1>5. HoldOK /\ LocalsOK
    BY <1>2, Zenon DEF HoldOK, LocalsOK, Holding
  <1> QED  BY <1>3, <1>4, <1>5, Zenon DEF BInv

\* A step of another thread while cs_main is free.
LEMMA FreeStep ==
    ASSUME BInv, Ready, UNCHANGED <<abc, inv>>, x'.tip = x.tip,
           IndexFull(x'), inv = NotInvalidating => Complete(x', x.tip),
           ~pending' => ~pending /\ \A b \in Block : Good(x', b) => Good(x, b)
    PROVE  BInv'
  <1>1. abc.pc \in {"outside", "outer"} /\ x.tip # NoBlock
    BY Zenon DEF Ready, csMainFree
  <1>2. FreeOK' /\ FirstOK' /\ HoldOK'
    BY <1>1, Zenon DEF FreeOK, FirstOK, HoldOK, Holding
  <1>3. LocalsOK'
    BY <1>1, Zenon DEF BInv, LocalsOK
  <1>4. BestOK'
    <2> SUFFICES ASSUME ~pending' PROVE BestOK'
      BY Zenon DEF BestOK
    <2>1. \A r : NoneBetter(r) => NoneBetter(r)'
      BY Zenon DEF NoneBetter
    <2> QED  BY <1>1, <2>1, Zenon DEF BInv, BestOK, chainstateFree
  <1> QED  BY <1>2, <1>3, <1>4, Zenon DEF BInv

LEMMA NewHeaderFull ==
    ASSUME IInv, BInv, NEW b \in Block \ {Genesis}, NewHeader(b)
    PROVE  BInv'
  <1>1. /\ Ready /\ x' = AcceptBlockHeader(x, b) /\ UNCHANGED <<abc, inv, pending>>
        /\ IndexType(x) /\ IndexFull(x) /\ FreeOK
    BY Zenon DEF NewHeader, IInv, IndexOK, BInv
  <1>2. Marked(x, x')
    BY <1>1, HeaderMarked, Zenon
  <1>3. /\ IndexFull(x')
        /\ \A c \in Block : Good(x', c) => Good(x, c)
        /\ Complete(x, x.tip) => Complete(x', x.tip)
    BY <1>1, <1>2, MarkedOK, Zenon
  <1>4. inv = NotInvalidating => Complete(x', x.tip)
    BY <1>1, <1>3, Zenon DEF FreeOK, Ready
  <1> QED  BY <1>1, <1>2, <1>3, <1>4, FreeStep, Zenon DEF Marked

LEMMA NewBlockFull ==
    ASSUME IInv, BInv, NEW b \in Block \ {Genesis}, NEW fRequested \in BOOLEAN,
           NewBlock(b, fRequested)
    PROVE  BInv'
  <1> DEFINE y == AcceptBlockHeader(x, b)
  <1>1. /\ Ready /\ UNCHANGED <<abc, inv>>
        /\ IndexOK(x) /\ IndexType(x) /\ IndexFull(x) /\ FreeOK /\ x.tip \in Block
    BY Zenon DEF NewBlock, IInv, IndexOK, IndexType, BInv, Ready, BlockOrNone
  <1>2. IndexOK(y) /\ IndexType(y) /\ Marked(x, y) /\ (HeaderAccepted(x, b) => b \in y.known)
    BY <1>1, AcceptBlockHeaderOK, HeaderMarked DEF IndexOK
  <1>3. \/ /\ HeaderAccepted(x, b) /\ b \notin y.data /\ pending' = TRUE
           /\ \E numbering \in Numberings(NewlyLinked(y, b), nextSeq) :
                 x' = ReceivedBlockTransactions(y, b, numbering)
        \/ x' = MarkFailed(y, {b}, "VALID") /\ (~pending' => ~pending)
        \/ x' = y /\ (~pending' => ~pending)
    BY Zenon DEF NewBlock
  <1> HIDE DEF y
  <1>4. /\ IndexFull(y) /\ y.tip = x.tip
        /\ \A c \in Block : Good(y, c) => Good(x, c)
        /\ Complete(x, x.tip) => Complete(y, x.tip)
    BY <1>1, <1>2, MarkedOK, Zenon DEF Marked
  <1>5. inv = NotInvalidating => Complete(y, x.tip)
    BY <1>1, <1>4, Zenon DEF FreeOK, Ready
  <1>6. ASSUME HeaderAccepted(x, b), b \notin y.data, pending' = TRUE,
               NEW numbering \in Numberings(NewlyLinked(y, b), nextSeq),
               x' = ReceivedBlockTransactions(y, b, numbering)
        PROVE  BInv'
    <2>1. IndexFull(x') /\ x'.tip = y.tip /\ (Complete(y, y.tip) => Complete(x', y.tip))
      BY <1>1, <1>2, <1>4, <1>6, ReceivedFull, Zenon
    <2> QED  BY <1>1, <1>4, <1>5, <1>6, <2>1, FreeStep, Zenon
  <1>7. ASSUME Marked(y, x'), ~pending' => ~pending PROVE BInv'
    <2>1. /\ IndexFull(x')
          /\ \A c \in Block : Good(x', c) => Good(y, c)
          /\ Complete(y, x.tip) => Complete(x', x.tip)
      BY <1>2, <1>4, <1>7, MarkedOK, Zenon
    <2>2. x'.tip = x.tip
      BY <1>4, <1>7, Zenon DEF Marked
    <2> QED  BY <1>1, <1>4, <1>5, <1>7, <2>1, <2>2, FreeStep, Zenon
  <1>8. x' = MarkFailed(y, {b}, "VALID") => Marked(y, x')
    <2>1. "VALID" \in FailedMask
      BY Zenon DEF FailedMask
    <2> QED  BY <1>2, <2>1, MarkFailedMarked, Zenon
  <1>9. x' = y => Marked(y, x')
    BY Zenon DEF Marked
  <1>10. CASE x' \in {MarkFailed(y, {b}, "VALID"), y} /\ (~pending' => ~pending)
    BY <1>7, <1>8, <1>9, <1>10, Zenon
  <1>11. CASE /\ HeaderAccepted(x, b) /\ b \notin y.data /\ pending' = TRUE
              /\ \E numbering \in Numberings(NewlyLinked(y, b), nextSeq) :
                    x' = ReceivedBlockTransactions(y, b, numbering)
    BY <1>6, <1>11, Zenon
  <1> QED  BY <1>3, <1>10, <1>11, Zenon

LEMMA RestartFull ==
    ASSUME IInv, BInv, Restart
    PROVE  BInv'
  <1>1. /\ Ready /\ x' = LoadBlockIndex(x) /\ UNCHANGED <<abc, inv>> /\ pending' = TRUE
        /\ IndexOK(x) /\ IndexFull(x) /\ x.tip # NoBlock
    BY Zenon DEF Restart, Command, Ready, IInv, BInv
  <1>2. IndexFull(x') /\ Complete(x', x.tip) /\ x'.tip = x.tip
    BY <1>1, LoadFull, LoadOK, Zenon
  <1> QED  BY <1>1, <1>2, FreeStep, Zenon

\* InvalidateBlock: candidates may be missing until its last step.
LEMMA InvalidateFull ==
    ASSUME IInv, BInv, ((\E b \in Invalidated : InvalidateBlock(b)) \/ InvalidateRound \/ InvalidateEnd)
    PROVE  BInv'
  <1>1. IndexType(x) /\ IndexOK(x) /\ IndexFull(x)
    BY Zenon DEF IInv, IndexOK, BInv
  <1>2. ASSUME abc.pc = "outside", abc.mostWork = NoBlock, UNCHANGED abc, IndexFull(x'),
               x'.tip # NoBlock, inv' # NotInvalidating
        PROVE  BInv'
    BY <1>2, Zenon DEF BInv, FreeOK, FirstOK, HoldOK, Holding, LocalsOK, BestOK, chainstateFree
  <1>3. ASSUME NEW b \in Invalidated, InvalidateBlock(b) PROVE BInv'
    <2>1. /\ b \in Block \ {Genesis} /\ x.tip # NoBlock /\ abc.pc = "outside"
          /\ inv' = [block |-> b, mark |-> b, byWork |-> CandidateBlocksByWork(x, b)]
          /\ UNCHANGED <<x, abc>>
      BY <1>1, <1>3, Zenon DEF InvalidateBlock, Command, Ready, IndexType, chainstateFree
    <2>2. inv'.block # NoBlock
      BY <2>1, AncestryAssumption, Zenon
    <2>3. inv' # NotInvalidating /\ abc.mostWork = NoBlock
      BY <2>1, <2>2, Zenon DEF NotInvalidating, IInv, AbcOK
    <2> QED  BY <1>1, <1>2, <2>1, <2>3, Zenon
  <1>4. CASE InvalidateRound
    <2>1. /\ abc.pc = "outside" /\ x.tip \in Block
          /\ inv.block \in Block \ {Genesis} /\ inv.mark \in Block
          /\ inv.byWork \subseteq x.linked /\ inv.block \in Ancestors[x.tip]
          /\ abc.mostWork = NoBlock /\ UNCHANGED abc
          /\ inv \in [block : BlockOrNone, mark : BlockOrNone, byWork : SUBSET Block]
      BY <1>1, <1>4, Zenon DEF InvalidateRound, IInv, InvOK, AbcOK, IndexType, BlockOrNone, Chain
    <2>2. x.tip # Genesis /\ Parent[x.tip] \in Block /\ x.tip \in x.data
      BY <1>1, <2>1, AncestorsDef, AncestorsEnds, AncestryAssumption, Zenon DEF IndexOK, IndexFull, Clean
    <2> DEFINE W == {c \in inv.byWork : Worse(x, c, Parent[x.tip])}
    <2>3. /\ x' = InvalidateTip(x, inv.mark, inv.byWork)
          /\ inv' = [inv EXCEPT !.mark = x.tip, !.byWork = W]
      BY <1>4, <2>2, Zenon DEF InvalidateRound
    <2> HIDE DEF W
    <2>4. IndexFull(x') /\ x'.tip = Parent[x.tip]
      BY <1>1, <2>1, <2>2, <2>3, InvalidateTipFull, InvalidateTipOK
    <2>5. inv'.block # NoBlock
      BY <2>1, <2>3, AncestryAssumption, Zenon
    <2>6. inv' # NotInvalidating
      BY <2>5 DEF NotInvalidating
    <2> QED  BY <1>2, <2>1, <2>2, <2>4, <2>6, AncestryAssumption, Zenon
  <1>5. CASE InvalidateEnd
    <2>1. /\ abc.pc = "outside" /\ x.tip \in Block
          /\ inv.mark \in Block /\ inv.block \in Ancestors[inv.mark]
          /\ abc.mostWork = NoBlock /\ UNCHANGED abc /\ inv' = NotInvalidating
          /\ inv.block \notin Chain(x) /\ x' = InvalidateDone(x, inv.mark) /\ pending' = TRUE
      BY <1>1, <1>5, Zenon DEF InvalidateEnd, IInv, InvOK, AbcOK, IndexType, BlockOrNone
    <2>2. inv.mark \notin Chain(x) /\ x.tip # NoBlock
      BY <2>1, AncestorsClosed, AncestryAssumption, Zenon DEF Chain
    <2>3. IndexFull(x') /\ Complete(x', x.tip) /\ x'.tip = x.tip
      BY <1>1, <2>1, <2>2, InvalidateDoneOK, InvalidateDoneFull, Zenon
    <2> QED  BY <2>1, <2>2, <2>3, Zenon
             DEF BInv, FreeOK, FirstOK, HoldOK, Holding, LocalsOK, BestOK
  <1> QED  BY <1>3, <1>4, <1>5, Zenon

-----------------------------------------------------------------------------
(* ActivateBestChain *)

\* The best candidate of an index that is complete from r on is the best of all.
LEMMA BestIsBest ==
    ASSUME IndexFull(x), NEW r \in Block, Good(x, r), Complete(x, r),
           NEW most \in Block, most \in BestCandidates(x)
    PROVE  NoneBetter(most) /\ ~Worse(x, most, r)
  <1>1. x.seq \in [Block -> Int] /\ \A d \in x.candidates : ~Worse(x, most, d)
    BY Zenon DEF IndexFull, BestCandidates
  <1>2. r \in x.candidates
    BY <1>1, WorseOrder, Zenon DEF Complete
  <1>3. ~Worse(x, most, r)
    BY <1>1, <1>2, Zenon
  <1>4. Work \in [Block -> Nat]
    BY WorkDef, Zenon
  <1>5. Work[r] <= Work[most]
    BY <1>1, <1>3, WorseOrder, Zenon
  <1>6. ASSUME NEW b \in Block, Good(x, b) PROVE Work[b] <= Work[most]
    <2>1. CASE Worse(x, b, r)
      <3>1. Work[b] <= Work[r]
        BY <1>1, <2>1, WorseOrder, Zenon
      <3> QED  BY <1>4, <1>5, <3>1
    <2>2. CASE ~Worse(x, b, r)
      <3>1. ~Worse(x, most, b)
        BY <1>1, <1>6, <2>2, Zenon DEF Complete
      <3> QED  BY <1>1, <3>1, WorseOrder, Zenon
    <2> QED  BY <2>1, <2>2, Zenon
  <1> QED  BY <1>3, <1>6, Zenon DEF NoneBetter

LEMMA CompleteUp ==
    ASSUME NEW y, y.seq \in [Block -> Int], NEW r \in Block, Complete(y, r),
           NEW t \in Block, ~Worse(y, t, r)
    PROVE  Complete(y, t)
  <1>1. ASSUME NEW b \in Block, Good(y, b), ~Worse(y, b, t) PROVE b \in y.candidates
    <2>1. Worse(y, b, r) => Worse(y, b, t) \/ Worse(y, t, r)
      BY WorseOrder, Zenon
    <2> QED  BY <1>1, <2>1, Zenon DEF Complete
  <1> QED  BY <1>1, Zenon DEF Complete

\* Before the first connection only the genesis block can be connected.
LEMMA OnlyGenesis ==
    ASSUME IInv, IndexFull(x), x.known = {Genesis}
    PROVE  /\ x.linked \subseteq {Genesis}
           /\ \A b \in Block : Good(x, b) => b = Genesis
  <1>1. x.processed \subseteq {Genesis} /\ x.data \subseteq {Genesis} /\ x.linked \subseteq x.processed
    BY Zenon DEF IInv, IndexOK, IndexFull
  <1> QED  BY <1>1, AncestorsEnds, Zenon DEF Good

LEMMA EnterFull ==
    ASSUME IInv, BInv, Enter
    PROVE  BInv'
  <1>1. /\ abc.pc = "outside" /\ inv = NotInvalidating /\ UNCHANGED <<x, inv>>
        /\ abc'.pc = "outer" /\ abc'.mostWork = NoBlock /\ abc'.starting = NoBlock
    BY Zenon DEF Enter, chainstateFree, NotRunning
  <1>2. FreeOK' /\ FirstOK'
    BY <1>1, Zenon DEF BInv, FreeOK, FirstOK, Holding, csMainFree
  <1>3. HoldOK' /\ LocalsOK' /\ BestOK'
    BY <1>1, Zenon DEF HoldOK, Holding, LocalsOK, BestOK, chainstateFree
  <1> QED  BY <1>1, <1>2, <1>3, Zenon DEF BInv

LEMMA LockMainFull ==
    ASSUME IInv, BInv, LockMain
    PROVE  BInv'
  <1>1. /\ abc.pc = "outer" /\ UNCHANGED <<x, inv, pending>>
        /\ abc' = [abc EXCEPT !.pc = "find", !.starting = x.tip, !.connected = FALSE]
        /\ IndexType(x) /\ IndexOK(x) /\ IndexFull(x) /\ AbcOK /\ ChainOK /\ InvOK
        /\ FreeOK /\ FirstOK /\ LocalsOK /\ BestOK
    BY Zenon DEF LockMain, abcUnchanged, IInv, IndexOK, BInv
  <1>2. /\ abc'.pc = "find" /\ abc'.starting = x.tip /\ abc'.connected = FALSE
        /\ abc'.mostWork = abc.mostWork /\ inv = NotInvalidating
        /\ x.tip \in BlockOrNone /\ abc.mostWork \in BlockOrNone
    BY <1>1, Zenon DEF AbcOK, InvOK, IndexType
  <1>3. FreeOK' /\ FirstOK' /\ LocalsOK' /\ BestOK'
    <2>1. FreeOK' /\ FirstOK'
      BY <1>1, <1>2, Zenon DEF FreeOK, FirstOK, csMainFree
    <2>2. LocalsOK'
      BY <1>1, <1>2, Zenon DEF LocalsOK
    <2>3. BestOK'
      BY <1>1, <1>2, Zenon DEF BestOK, chainstateFree, NoneBetter
    <2> QED  BY <2>1, <2>2, <2>3, Zenon
  <1>4. HoldOK'
    <2> SUFFICES ASSUME x.tip # NoBlock PROVE HoldOK'
      BY <1>2, Zenon DEF HoldOK
    <2>1. x.tip \in Block /\ Complete(x, x.tip)
      BY <1>1, <1>2, Zenon DEF FreeOK, csMainFree, BlockOrNone
    <2>2. Good(x, x.tip)
      BY <1>1, Zenon DEF IndexOK, Clean, Good, IndexFull
    <2>3. Ancestors[x.tip] \cap (Bad \cup Mutated) = {}
      BY <1>1, Zenon DEF ChainOK, Chain
    <2>4. ASSUME abc.mostWork # NoBlock PROVE ~Worse(x, abc.mostWork, x.tip)
      <3>1. abc.mostWork \in Block /\ x.tip \in Ancestors[abc.mostWork] \ {abc.mostWork}
        BY <1>1, <1>2, <2>4, Zenon DEF LocalsOK, BlockOrNone
      <3>2. Work[x.tip] < Work[abc.mostWork] /\ Work[x.tip] \in Nat /\ Work[abc.mostWork] \in Nat
        BY <2>1, <3>1, LessWorkBelow, WorkDef, Zenon
      <3> QED  BY <3>2 DEF Worse
    <2> QED  BY <1>1, <1>2, <2>1, <2>2, <2>3, <2>4, Zenon DEF HoldOK
  <1> QED  BY <1>1, <1>3, <1>4, Zenon DEF BInv

\* What FindMostWorkChain returns is the best there is, and no worse than the tip that
\* was found: that tip is still a candidate.
LEMMA FoundIsBest ==
    ASSUME IInv, BInv, abc.pc = "find", NEW most \in MostWorkFound
    PROVE  /\ most # NoBlock /\ ~pending => NoneBetter(most)
           /\ abc.starting # NoBlock => most # NoBlock /\ ~Worse(x, most, abc.starting)
           /\ most \in {NoBlock, x.tip} => most = x.tip
  <1>1. /\ IndexType(x) /\ IndexOK(x) /\ IndexFull(x) /\ AbcOK
        /\ FirstOK /\ HoldOK /\ LocalsOK /\ BestOK /\ Holding
        /\ abc.mostWork \in BlockOrNone /\ abc.starting \in BlockOrNone
    BY Zenon DEF IInv, IndexOK, BInv, Holding, AbcOK
  <1>2. CASE abc.mostWork # NoBlock
    <2>1. most = abc.mostWork /\ most # x.tip
      BY <1>1, <1>2, Zenon DEF MostWorkFound, LocalsOK
    <2> QED  BY <1>1, <1>2, <2>1, Zenon DEF BestOK, HoldOK
  <1>3. CASE abc.mostWork = NoBlock /\ abc.starting # NoBlock
    <2>1. abc.starting \in Block /\ Good(x, abc.starting) /\ Complete(x, abc.starting)
      BY <1>1, <1>3, Zenon DEF HoldOK, BlockOrNone
    <2>2. abc.starting \in x.candidates
      BY <1>1, <2>1, WorseOrder, Zenon DEF Complete, IndexFull
    <2>3. most \in BestCandidates(x) /\ most \in Block
      BY <1>1, <1>3, <2>2, Zenon DEF MostWorkFound, BestCandidates, IndexType
    <2>4. NoneBetter(most) /\ ~Worse(x, most, abc.starting)
      BY <1>1, <2>1, <2>3, BestIsBest, Zenon
    <2> QED  BY <2>3, <2>4, AncestryAssumption, Zenon
  <1>4. CASE abc.mostWork = NoBlock /\ abc.starting = NoBlock
    <2>1. x.tip = NoBlock /\ x.known = {Genesis}
      BY <1>1, <1>4, Zenon DEF LocalsOK, FirstOK
    <2>2. ASSUME most # NoBlock PROVE NoneBetter(most)
      <3>1. most \in x.candidates
        BY <1>4, <2>2, Zenon DEF MostWorkFound, BestCandidates
      <3>2. most = Genesis
        BY <1>1, <2>1, <3>1, OnlyGenesis, Zenon DEF IndexOK
      <3>3. Work[Genesis] \in Nat
        BY WorkDef, AncestryAssumption, Zenon
      <3>4. \A b \in Block : Good(x, b) => b = Genesis
        BY <1>1, <2>1, OnlyGenesis, Zenon
      <3> QED  BY <3>2, <3>3, <3>4 DEF NoneBetter
    <2> QED  BY <1>4, <2>1, <2>2, Zenon
  <1> QED  BY <1>2, <1>3, <1>4, Zenon

\* A round of FindMostWorkChain that drops a candidate.
LEMMA DropFull ==
    ASSUME IInv, BInv, abc.pc = "find", NEW c \in x.candidates, Unusable(x, c) # {},
           x' = DropCandidate(x, c), UNCHANGED <<abc, inv, pending>>
    PROVE  BInv'
  <1>1. /\ IndexType(x) /\ IndexOK(x) /\ IndexFull(x) /\ AbcOK
        /\ FirstOK /\ HoldOK /\ LocalsOK /\ BestOK /\ Holding /\ Holding'
    BY Zenon DEF IInv, IndexOK, BInv, Holding, AbcOK
  <1>2. Marked(x, x') /\ x'.known = x.known /\ IndexOK(x') /\ Keeps(x, x')
    BY <1>1, DropMarked, DropCandidateOK, Zenon
  <1>3. /\ IndexFull(x') /\ x'.tip = x.tip /\ x'.seq = x.seq
        /\ \A b \in Block : Good(x', b) => Good(x, b)
        /\ \A r : Complete(x, r) => Complete(x', r)
    BY <1>1, <1>2, MarkedOK, Zenon DEF Marked
  <1>4. FreeOK' /\ LocalsOK'
    BY <1>1, <1>3, Zenon DEF FreeOK, csMainFree, LocalsOK
  <1>5. FirstOK'
    BY <1>1, <1>2, <1>3, AncestryAssumption, Zenon DEF FirstOK, Marked
  <1>6. BestOK'
    BY <1>1, <1>3, Zenon DEF BestOK, chainstateFree, NoneBetter
  <1>7. HoldOK'
    <2> SUFFICES ASSUME abc.starting # NoBlock PROVE HoldOK'
      BY Zenon DEF HoldOK
    <2>1. abc.starting \in Block /\ Good(x, abc.starting) /\ Complete(x, abc.starting)
      BY <1>1, Zenon DEF HoldOK, AbcOK, BlockOrNone
    <2>2. Clean(x, abc.starting)
      <3>1. ASSUME NEW a \in Ancestors[abc.starting] PROVE a \in x.linked /\ x.failed[a] = {}
        <4>1. Good(x, a) /\ a \in Block
          BY <2>1, GoodBelow, AncestorsEnds, Zenon
        <4> QED  BY <1>1, <2>1, <4>1, Zenon DEF IndexFull, Good
      <3> QED  BY <3>1, Zenon DEF Clean
    <2>3. Good(x', abc.starting)
      BY <1>2, <1>3, <2>1, <2>2 DEF Keeps, Clean, IndexOK, IndexFull, Good
    <2>4. \A a, b : Worse(x', a, b) <=> Worse(x, a, b)
      BY <1>3, Zenon DEF Worse
    <2> QED  BY <1>1, <1>3, <2>1, <2>3, <2>4, Zenon DEF HoldOK
  <1> QED  BY <1>3, <1>4, <1>5, <1>6, <1>7, Zenon DEF BInv

LEMMA FindFull ==
    ASSUME IInv, BInv, FindMostWork
    PROVE  BInv'
  <1>1. /\ IndexType(x) /\ IndexOK(x) /\ IndexFull(x) /\ AbcOK /\ InvOK
        /\ FirstOK /\ HoldOK /\ LocalsOK /\ BestOK
        /\ abc.pc = "find" /\ UNCHANGED <<inv, pending>>
    BY Zenon DEF IInv, IndexOK, BInv, FindMostWork, abcUnchanged
  <1>2. ASSUME NEW c \in BestCandidates(x), Unusable(x, c) # {}, x' = DropCandidate(x, c),
               UNCHANGED abc
        PROVE  BInv'
    <2>1. c \in x.candidates
      BY Zenon DEF BestCandidates
    <2> QED  BY <1>1, <1>2, <2>1, DropFull, Zenon
  <1>3. ASSUME NEW most \in MostWorkFound, UNCHANGED x,
               LET a == [abc EXCEPT !.mostWork = most]
               IN abc' = IF most \notin {NoBlock, x.tip}
                         THEN [a EXCEPT !.pc = "step", !.oldTip = x.tip, !.connected = TRUE]
                         ELSE IF abc.connected THEN LeaveRound(a)
                         ELSE NotRunning
        PROVE  BInv'
    <2>1. /\ most # NoBlock /\ ~pending => NoneBetter(most)
          /\ abc.starting # NoBlock => most # NoBlock /\ ~Worse(x, most, abc.starting)
          /\ most \in {NoBlock, x.tip} => most = x.tip
      BY <1>1, FoundIsBest, Zenon
    <2>2. CASE most \notin {NoBlock, x.tip}
      <3>1. /\ abc'.pc = "step" /\ abc'.starting = abc.starting /\ abc'.mostWork = most
        BY <1>1, <1>3, <2>2, Zenon DEF AbcOK
      <3>2. FreeOK' /\ FirstOK' /\ LocalsOK'
        BY <1>1, <1>3, <3>1, Zenon DEF FreeOK, csMainFree, FirstOK, Holding, LocalsOK
      <3>3. BestOK'
        BY <1>1, <1>3, <2>1, <3>1, Zenon DEF BestOK, chainstateFree, NoneBetter
      <3>4. HoldOK'
        BY <1>1, <1>3, <2>1, <3>1, Zenon DEF HoldOK, Holding
      <3> QED  BY <1>1, <1>3, <3>2, <3>3, <3>4, Zenon DEF BInv
    <2>3. CASE most = x.tip
      <3>1. abc' = NotRunning
        <4>1. ASSUME abc.connected PROVE LeaveRound([abc EXCEPT !.mostWork = most]) = NotRunning
          <5>1. abc.newTip = most
            BY <1>1, <2>3, <4>1, Zenon DEF LocalsOK
          <5> QED  BY <1>1, <5>1, Zenon DEF LeaveRound, AbcOK
        <4> QED  BY <1>3, <2>3, <4>1, Zenon
      <3>2. abc'.pc = "outside" /\ abc'.mostWork = NoBlock /\ abc'.starting = NoBlock
        BY <3>1, Zenon DEF NotRunning
      <3>3. FirstOK' /\ HoldOK' /\ LocalsOK'
        BY <1>1, <1>3, <3>2, Zenon DEF FirstOK, HoldOK, LocalsOK, Holding
      <3>4. BestOK'
        BY <1>1, <1>3, <2>1, <2>3, <3>2, Zenon DEF BestOK, NoneBetter
      <3>5. ASSUME x.tip # NoBlock PROVE Complete(x, x.tip)
        <4>1. abc.starting # NoBlock
          BY <1>1, <3>5, Zenon DEF LocalsOK
        <4>2. /\ abc.starting \in Block /\ x.tip \in Block /\ Complete(x, abc.starting)
              /\ ~Worse(x, x.tip, abc.starting) /\ x.seq \in [Block -> Int]
          BY <1>1, <2>1, <2>3, <3>5, <4>1, Zenon
             DEF HoldOK, Holding, AbcOK, BlockOrNone, IndexType, IndexFull
        <4> QED  BY <4>2, CompleteUp, Zenon
      <3>6. FreeOK'
        BY <1>3, <3>5, Zenon DEF FreeOK
      <3> QED  BY <1>1, <1>3, <3>3, <3>4, <3>6, Zenon DEF BInv
    <2> QED  BY <2>1, <2>2, <2>3, Zenon
  <1> QED  BY <1>2, <1>3, Zenon DEF FindMostWork

LEMMA ProgressFull ==
    ASSUME IInv, BInv, Progress
    PROVE  BInv'
  <1>1. /\ IndexType(x) /\ IndexOK(x) /\ IndexFull(x) /\ AbcOK
        /\ FirstOK /\ HoldOK /\ LocalsOK /\ BestOK /\ Holding
        /\ abc.pc = "progress" /\ UNCHANGED <<x, inv, pending>>
        /\ x.tip \in BlockOrNone /\ abc.starting \in BlockOrNone
    BY Zenon DEF IInv, IndexOK, IndexType, AbcOK, BInv, Progress, abcUnchanged, Holding
  <1> DEFINE again == \/ x.tip = NoBlock
                      \/ abc.starting # NoBlock /\ Worse(x, x.tip, abc.starting)
  <1>2. CASE again
    <2>1. abc' = [abc EXCEPT !.pc = "find"]
      BY <1>2, Zenon DEF Progress
    <2>2. /\ abc'.pc = "find" /\ abc'.starting = abc.starting
          /\ abc'.mostWork = abc.mostWork /\ abc'.newTip = abc.newTip
      BY <1>1, <2>1, Zenon DEF AbcOK
    <2>3. FreeOK' /\ FirstOK' /\ BestOK'
      <3>1. FreeOK' /\ FirstOK'
        BY <1>1, <2>2, Zenon DEF FreeOK, csMainFree, FirstOK, Holding
      <3>2. BestOK'
        BY <1>1, <2>2, Zenon DEF BestOK, chainstateFree, NoneBetter
      <3> QED  BY <3>1, <3>2, Zenon
    <2>4. ASSUME abc.starting # NoBlock
          PROVE  /\ Worse(x, x.tip, abc.starting) /\ Complete(x, abc.starting)
                 /\ abc.mostWork # NoBlock => abc.mostWork # x.tip
      BY <1>1, <1>2, <2>4, Zenon DEF FirstOK, HoldOK
    <2>5. HoldOK'
      BY <1>1, <2>2, <2>4, Zenon DEF HoldOK
    <2>6. LocalsOK'
      BY <1>1, <1>2, <2>2, <2>4, Zenon DEF LocalsOK
    <2> QED  BY <1>1, <2>3, <2>5, <2>6, Zenon DEF BInv
  <1>3. CASE ~again
    <2>1. abc' = LeaveRound(abc) /\ x.tip # NoBlock /\ x.tip \in Block
      BY <1>1, <1>3, Zenon DEF Progress, BlockOrNone
    <2>2. Complete(x, x.tip)
      <3>1. CASE abc.starting = NoBlock
        <4>1. /\ x.known = {Genesis} /\ (Good(x, Genesis) => Genesis \in x.candidates)
          BY <1>1, <3>1, Zenon DEF FirstOK
        <4>2. \A b \in Block : Good(x, b) => b = Genesis
          BY <1>1, <4>1, OnlyGenesis, Zenon
        <4> QED  BY <4>1, <4>2, Zenon DEF Complete
      <3>2. CASE abc.starting # NoBlock
        <4>1. ~Worse(x, x.tip, abc.starting) /\ abc.starting \in Block /\ x.seq \in [Block -> Int]
          BY <1>1, <1>3, <3>2, Zenon DEF BlockOrNone, IndexFull
        <4>2. Complete(x, abc.starting) \/ Complete(x, x.tip)
          BY <1>1, <3>2, Zenon DEF HoldOK
        <4> QED  BY <2>1, <4>1, <4>2, CompleteUp, Zenon
      <3> QED  BY <3>1, <3>2, Zenon
    <2>3. CASE abc.newTip # abc.mostWork
      <3>1. abc' = [abc EXCEPT !.pc = "outer"]
        BY <2>1, <2>3, Zenon DEF LeaveRound
      <3>2. abc'.pc = "outer" /\ abc'.mostWork = abc.mostWork
        BY <1>1, <3>1, Zenon DEF AbcOK
      <3>3. FreeOK' /\ FirstOK' /\ HoldOK' /\ LocalsOK'
        BY <1>1, <2>1, <2>2, <2>3, <3>2, Zenon DEF FreeOK, FirstOK, HoldOK, LocalsOK, Holding
      <3>4. BestOK'
        BY <1>1, <3>2, Zenon DEF BestOK, chainstateFree, NoneBetter
      <3> QED  BY <1>1, <3>3, <3>4, Zenon DEF BInv
    <2>4. CASE abc.newTip = abc.mostWork
      <3>1. abc' = NotRunning /\ abc.mostWork = x.tip
        BY <1>1, <2>1, <2>4, Zenon DEF LeaveRound, LocalsOK
      <3>2. abc'.pc = "outside" /\ abc'.mostWork = NoBlock
        BY <3>1, Zenon DEF NotRunning
      <3>3. FreeOK' /\ FirstOK' /\ HoldOK' /\ LocalsOK'
        BY <1>1, <2>1, <2>2, <3>2, Zenon DEF FreeOK, FirstOK, HoldOK, LocalsOK, Holding
      <3>4. BestOK'
        BY <1>1, <2>1, <3>1, <3>2, Zenon DEF BestOK, NoneBetter
      <3> QED  BY <1>1, <3>3, <3>4 DEF BInv
    <2> QED  BY <2>3, <2>4, Zenon
  <1> QED  BY <1>2, <1>3, Zenon

LEMMA AbortFull ==
    ASSUME IInv, BInv, abc.pc = "step", abc' = [abc EXCEPT !.pc = "aborted"],
           UNCHANGED <<x, inv, pending>>
    PROVE  BInv'
  <1>1. /\ abc'.pc = "aborted" /\ abc'.starting = abc.starting /\ abc'.mostWork = abc.mostWork
    BY Zenon DEF IInv, AbcOK
  <1>2. FreeOK' /\ FirstOK' /\ HoldOK' /\ LocalsOK'
    BY <1>1, Zenon DEF BInv, FreeOK, csMainFree, FirstOK, HoldOK, LocalsOK, Holding
  <1>3. BestOK'
    BY <1>1, Zenon DEF BInv, BestOK, chainstateFree, NoneBetter
  <1> QED  BY <1>2, <1>3, Zenon DEF BInv

LEMMA DisconnectFull ==
    ASSUME IInv, BInv, StepDisconnect
    PROVE  BInv'
  <1>1. /\ IndexType(x) /\ IndexFull(x) /\ AbcOK
        /\ FirstOK /\ HoldOK /\ LocalsOK /\ BestOK /\ Holding
        /\ abc.pc = "step" /\ UNCHANGED <<inv, pending>>
        /\ abc.mostWork \in Block /\ x.tip \in Block /\ x.tip \notin Ancestors[abc.mostWork]
    BY Zenon DEF IInv, IndexOK, IndexType, AbcOK, BInv, StepDisconnect, abcUnchanged, Holding, BlockOrNone
  <1>2. CASE x' = [x EXCEPT !.tip = Parent[x.tip]] /\ UNCHANGED abc
    <2>1. x.tip # Genesis /\ Parent[x.tip] \in Block
      BY <1>1, AncestorsEnds, AncestryAssumption, Zenon
    <2>2. /\ x'.tip = Parent[x.tip] /\ x'.known = x.known /\ x'.processed = x.processed
          /\ x'.data = x.data /\ x'.linked = x.linked /\ x'.failed = x.failed
          /\ x'.seq = x.seq /\ x'.unlinked = x.unlinked /\ x'.candidates = x.candidates
      BY <1>1, <1>2, Zenon DEF IndexType
    <2>3. /\ IndexFull(x')
          /\ \A b : Good(x', b) <=> Good(x, b)
          /\ \A a, b : Worse(x', a, b) <=> Worse(x, a, b)
      BY <1>1, <2>2, SameBlocksFull, Zenon
    <2>4. \A r : Complete(x, r) => Complete(x', r)
      BY <2>2, <2>3, Zenon DEF Complete
    <2>5. FreeOK' /\ LocalsOK'
      BY <1>1, <1>2, Zenon DEF FreeOK, csMainFree, LocalsOK
    <2>6. FirstOK'
      BY <1>1, <1>2, <2>1, <2>2, <2>3, AncestryAssumption, Zenon DEF FirstOK, Holding
    <2>7. BestOK'
      BY <1>1, <1>2, <2>3, Zenon DEF BestOK, chainstateFree, NoneBetter
    <2>8. HoldOK'
      BY <1>1, <1>2, <2>3, <2>4, Zenon DEF HoldOK
    <2> QED  BY <2>3, <2>5, <2>6, <2>7, <2>8, Zenon DEF BInv
  <1>3. CASE abc' = [abc EXCEPT !.pc = "aborted"] /\ UNCHANGED x
    BY <1>1, <1>3, AbortFull, Zenon
  <1> QED  BY <1>2, <1>3, Zenon DEF StepDisconnect

\* ConnectTip on a block that is valid.
LEMMA ConnectedFull ==
    ASSUME IInv, BInv, abc.pc = "step", NEW b \in Block, b \in Ancestors[abc.mostWork],
           x.tip # NoBlock => b # Genesis /\ Parent[b] = x.tip,
           x' = TipConnected(x, b), UNCHANGED <<inv, pending>>,
           \/ abc' = [abc EXCEPT !.pc = "progress", !.newTip = b]
           \/ UNCHANGED abc
    PROVE  BInv'
  <1>1. /\ IndexType(x) /\ IndexOK(x) /\ IndexFull(x) /\ AbcOK
        /\ FirstOK /\ HoldOK /\ LocalsOK /\ BestOK /\ Holding
        /\ abc.mostWork \in Block /\ Clean(x, abc.mostWork) /\ abc.starting \in BlockOrNone
    BY Zenon DEF IInv, IndexOK, AbcOK, BInv, Holding, BlockOrNone
  <1>2. /\ abc'.pc \in {"step", "progress"} /\ abc'.mostWork = abc.mostWork
        /\ abc'.starting = abc.starting /\ (abc'.pc = "progress" => abc'.newTip = b)
    BY <1>1, Zenon DEF AbcOK
  <1>3. /\ x'.known = x.known /\ x'.processed = x.processed /\ x'.data = x.data
        /\ x'.linked = x.linked /\ x'.failed = x.failed /\ x'.seq = x.seq
        /\ x'.unlinked = x.unlinked /\ x'.tip = b
        /\ \A c : c \in x'.candidates <=> c \in x.candidates /\ ~Worse(x, c, b)
    BY <1>1, TipConnectedFields
  <1>4. /\ IndexFull(x')
        /\ \A c : Good(x', c) <=> Good(x, c)
        /\ \A a, c : Worse(x', a, c) <=> Worse(x, a, c)
    BY <1>1, <1>3, SameBlocksFull, Zenon
  <1>5. b # NoBlock /\ x.seq \in [Block -> Int]
    BY <1>1, AncestryAssumption, Zenon DEF IndexFull
  <1>6. FreeOK' /\ LocalsOK'
    BY <1>2, <1>3, Zenon DEF FreeOK, csMainFree, LocalsOK
  <1>7. BestOK'
    BY <1>1, <1>2, <1>4, Zenon DEF BestOK, chainstateFree, NoneBetter
  <1>8. FirstOK'
    <2> SUFFICES ASSUME abc.starting = NoBlock
                 PROVE  x'.known = {Genesis} /\ (Good(x', Genesis) => Genesis \in x'.candidates)
      BY <1>2, <1>3, <1>5, Zenon DEF FirstOK
    <2>1. x.known = {Genesis} /\ (Good(x, Genesis) => Genesis \in x.candidates)
      BY <1>1, Zenon DEF FirstOK
    <2>2. b = Genesis
      <3>1. b \in x.linked
        BY <1>1, Zenon DEF Clean
      <3> QED  BY <1>1, <2>1, <3>1, OnlyGenesis, Zenon
    <2>3. ~Worse(x, Genesis, b)
      BY <1>5, <2>2, WorseOrder, Zenon
    <2> QED  BY <1>3, <1>4, <2>1, <2>3, Zenon
  <1>9. HoldOK'
    <2> SUFFICES ASSUME abc.starting # NoBlock PROVE HoldOK'
      BY <1>2, Zenon DEF HoldOK
    <2> DEFINE s == abc.starting
    <2>1. /\ s \in Block /\ Good(x, s) /\ Ancestors[s] \cap (Bad \cup Mutated) = {}
          /\ ~Worse(x, abc.mostWork, s)
      BY <1>1, AncestryAssumption, Zenon DEF HoldOK, BlockOrNone
    <2>2. \/ Complete(x', s)
          \/ ~Worse(x, b, s) /\ Complete(x', b)
      <3>1. CASE Complete(x, s)
        BY <1>1, <2>1, <3>1, TipConnectedComplete, Zenon
      <3>2. CASE /\ ~Worse(x, x.tip, s) /\ Complete(x, x.tip)
                 /\ x.tip \in Ancestors[abc.mostWork]
        <4>1. x.tip \in Block /\ x.tip # NoBlock
          BY <1>1, <3>2, AncestorsEnds, AncestryAssumption, Zenon
        <4>2. Work[b] = Proof[b] + Work[x.tip] /\ Proof[b] \in Nat \ {0}
              /\ Work[x.tip] \in Nat /\ Work[b] \in Nat
          BY <4>1, WorkDef, ProofAssumption, Zenon
        <4>3. ~Worse(x, b, x.tip)
          BY <4>2 DEF Worse
        <4>4. Complete(x', b)
          BY <1>1, <3>2, <4>1, <4>3, TipConnectedComplete, Zenon
        <4>5. Worse(x, b, s) => Worse(x, b, x.tip) \/ Worse(x, x.tip, s)
          BY <1>5, <2>1, <4>1, WorseOrder, Zenon
        <4> QED  BY <3>2, <4>3, <4>4, <4>5, Zenon
      <3> QED  BY <1>1, <3>1, <3>2, Zenon DEF HoldOK
    <2> HIDE DEF s
    <2>3. HoldOK' <=> /\ Good(x', s)
                      /\ Ancestors[s] \cap (Bad \cup Mutated) = {}
                      /\ abc.mostWork # NoBlock => ~Worse(x', abc.mostWork, s)
                      /\ \/ Complete(x', s)
                         \/ /\ ~Worse(x', b, s) /\ Complete(x', b)
                            /\ abc'.pc = "step" => b \in Ancestors[abc.mostWork]
      BY <1>2, <1>3, Zenon DEF HoldOK, Holding, s
    <2> QED  BY <1>4, <2>1, <2>2, <2>3, Zenon
  <1> QED  BY <1>4, <1>6, <1>7, <1>8, <1>9, Zenon DEF BInv

\* ConnectTip on an invalid block: the tip that was found does not descend from it.
LEMMA RefusedFull ==
    ASSUME IInv, BInv, abc.pc = "step", NEW b \in Block, b \in Bad \cup Mutated,
           x' = InvalidBlockFound(x, b) \/ UNCHANGED x, UNCHANGED <<inv, pending>>,
           abc' = [abc EXCEPT !.pc = "progress", !.newTip = x.tip, !.mostWork = NoBlock]
    PROVE  BInv'
  <1>1. /\ IndexType(x) /\ IndexFull(x) /\ AbcOK
        /\ FirstOK /\ HoldOK /\ LocalsOK /\ BestOK /\ Holding /\ abc.starting \in BlockOrNone
    BY Zenon DEF IInv, IndexOK, AbcOK, BInv, Holding
  <1>2. /\ abc'.pc = "progress" /\ abc'.mostWork = NoBlock
        /\ abc'.starting = abc.starting /\ abc'.newTip = x.tip
    BY <1>1, Zenon DEF AbcOK
  <1>3. /\ Marked(x, x') /\ x'.known = x.known
        /\ \A a \in Block \ {b} : x'.failed[a] = x.failed[a]
    BY <1>1, InvalidFoundMarked DEF Marked
  <1>4. /\ IndexFull(x') /\ x'.tip = x.tip /\ x'.seq = x.seq /\ x'.data = x.data
        /\ \A c \in Block : Good(x', c) => Good(x, c)
        /\ \A r : Complete(x, r) => Complete(x', r)
    BY <1>1, <1>3, MarkedOK, Zenon DEF Marked
  <1>5. FreeOK' /\ LocalsOK' /\ BestOK'
    BY <1>2, <1>4, Zenon DEF FreeOK, csMainFree, LocalsOK, BestOK, chainstateFree
  <1>6. FirstOK'
    BY <1>1, <1>2, <1>3, <1>4, AncestryAssumption, Zenon DEF FirstOK, Marked
  <1>7. HoldOK'
    <2> SUFFICES ASSUME abc.starting # NoBlock PROVE HoldOK'
      BY <1>2, Zenon DEF HoldOK
    <2>1. /\ abc.starting \in Block /\ Good(x, abc.starting)
          /\ Ancestors[abc.starting] \cap (Bad \cup Mutated) = {}
          /\ Ancestors[abc.starting] \subseteq Block
      BY <1>1, AncestorsEnds, Zenon DEF HoldOK, BlockOrNone
    <2>2. Good(x', abc.starting)
      BY <1>3, <1>4, <2>1 DEF Good
    <2>3. Worse(x', x.tip, abc.starting) <=> Worse(x, x.tip, abc.starting)
      BY <1>4, Zenon DEF Worse
    <2> QED  BY <1>1, <1>2, <1>4, <2>1, <2>2, <2>3, Zenon DEF HoldOK
  <1> QED  BY <1>4, <1>5, <1>6, <1>7, Zenon DEF BInv

LEMMA ConnectFull ==
    ASSUME IInv, BInv, StepConnect
    PROVE  BInv'
  <1> DEFINE b == NextToConnect
  <1>1. /\ abc.pc = "step" /\ UNCHANGED <<inv, pending>>
        /\ abc.mostWork \in Block /\ abc.mostWork # x.tip
        /\ x.tip \in Ancestors[abc.mostWork] \cup {NoBlock}
    BY Zenon DEF IInv, AbcOK, BlockOrNone, StepConnect, abcUnchanged
  <1>2. /\ b \in Ancestors[abc.mostWork]
        /\ x.tip # NoBlock => b # Genesis /\ Parent[b] = x.tip
    BY <1>1, NextIsChild, Zenon
  <1>3. \/ abc' = [abc EXCEPT !.pc = "aborted"] /\ UNCHANGED x
        \/ /\ x' = TipConnected(x, b)
           /\ \/ abc' = [abc EXCEPT !.pc = "progress", !.newTip = b]
              \/ UNCHANGED abc
        \/ /\ b \in Bad \cup Mutated /\ (x' = InvalidBlockFound(x, b) \/ UNCHANGED x)
           /\ abc' = [abc EXCEPT !.pc = "progress", !.newTip = x.tip, !.mostWork = NoBlock]
    BY Zenon DEF StepConnect
  <1> HIDE DEF b
  <1>4. b \in Block
    BY <1>1, <1>2, AncestorsEnds, Zenon
  <1> QED  BY <1>1, <1>2, <1>3, <1>4, AbortFull, ConnectedFull, RefusedFull, Zenon

LEMMA NextBInv ==
    ASSUME PlainNode
    PROVE  IInv /\ BInv /\ [Next]_vars => BInv'
  <1> SUFFICES ASSUME IInv, BInv, [Next]_vars PROVE BInv'
    BY Zenon
  <1>1. ASSUME NEW b \in Block \ {Genesis}, NewHeader(b) PROVE BInv'
    BY <1>1, NewHeaderFull, Zenon
  <1>2. ASSUME NEW b \in Block \ {Genesis}, NEW fRequested \in BOOLEAN, NewBlock(b, fRequested)
        PROVE  BInv'
    BY <1>2, NewBlockFull, Zenon
  <1>3. CASE Enter
    BY <1>3, EnterFull, Zenon
  <1>4. CASE LockMain
    BY <1>4, LockMainFull
  <1>5. CASE FindMostWork
    BY <1>5, FindFull
  <1>6. CASE StepDisconnect
    BY <1>6, DisconnectFull
  <1>7. CASE StepConnect
    BY <1>7, ConnectFull
  <1>8. CASE Progress
    BY <1>8, ProgressFull
  <1>9. CASE (\E b \in Invalidated : InvalidateBlock(b)) \/ InvalidateRound \/ InvalidateEnd
    BY <1>9, InvalidateFull, Zenon
  <1>10. CASE Restart
    BY <1>10, RestartFull
  <1>11. CASE UNCHANGED vars
    <2>1. UNCHANGED <<x, abc, inv, pending>>
      BY <1>11, Zenon DEF vars
    <2>2. FreeOK' /\ FirstOK' /\ HoldOK' /\ LocalsOK'
      BY <2>1 DEF BInv, FreeOK, csMainFree, FirstOK, HoldOK, LocalsOK, Holding
    <2>3. BestOK'
      BY <2>1, Zenon DEF BInv, BestOK, chainstateFree, NoneBetter
    <2> QED  BY <2>1, <2>2, <2>3, Zenon DEF BInv
  <1>12. Reconsidered = {} /\ Precious = {} /\ Prunable = {}
    BY Zenon DEF PlainNode
  <1> QED  BY <1>1, <1>2, <1>3, <1>4, <1>5, <1>6, <1>7, <1>8, <1>9, <1>10, <1>11, <1>12
           DEF Next, ActivateBestChain

-----------------------------------------------------------------------------
(* The theorems *)

\* Once ActivateBestChain has returned and no further call is due, every known chain
\* with more work than the active one lacks the data of a block or holds a block marked
\* invalid, whatever the order in which headers and blocks arrived, blocks turned out
\* to be invalid, invalidateblock ran between its rounds, and the node restarted.
THEOREM TipIsBest ==
    ASSUME PlainNode
    PROVE  Spec => []TipHasMostWork
  <1>1. IInv /\ BInv => TipHasMostWork
    <2> SUFFICES ASSUME IInv, BInv, x.tip # NoBlock, chainstateFree, ~pending,
                        NEW b \in x.known, Work[b] > Work[x.tip]
                 PROVE  \E a \in Ancestors[b] \ Chain(x) : a \notin x.data \/ x.failed[a] # {}
      BY Zenon DEF TipHasMostWork, Ready
    <2>1. /\ IndexOK(x) /\ x.tip \in Block /\ b \in Block /\ IndexFull(x)
      BY Zenon DEF IInv, IndexOK, IndexType, BInv, BlockOrNone
    <2>2. NoneBetter(x.tip)
      BY Zenon DEF BInv, BestOK
    <2>3. Work[b] \in Nat /\ Work[x.tip] \in Nat
      BY <2>1, WorkDef, Zenon
    <2>4. ~Good(x, b)
      BY <2>1, <2>2, <2>3 DEF NoneBetter
    <2>5. PICK a \in Ancestors[b] : a \notin x.data \/ x.failed[a] # {}
      BY <2>4, Zenon DEF Good
    <2>6. a \notin Chain(x)
      BY <2>1, <2>5, Zenon DEF IndexOK, IndexFull, Clean, Chain
    <2> QED  BY <2>5, <2>6, Zenon
  <1>2. IInv /\ BInv /\ [Next]_vars => BInv'
    BY NextBInv, Zenon
  <1> QED  BY <1>1, <1>2, InitIInv, NextIInv, InitBInv, PTL DEF Spec

\* ActivateBestChain never lets go of cs_main with a tip that sorts before the one it
\* found when it took the lock: neither when it finds nothing better, nor when blocks on
\* the way to the chosen tip were invalid and it had to look for another one.
THEOREM NoBackwardStep ==
    ASSUME PlainNode
    PROVE  Spec => NeverBackward
  <1>1. ASSUME IInv, BInv, [Next]_vars,
               abc.pc \in {"find", "progress"}, abc'.pc \in {"outer", "outside"},
               abc.starting # NoBlock
        PROVE  ~Worse(x, x'.tip, abc.starting)
    <2>1. abc' # abc
      BY <1>1, Zenon
    <2>2. FindMostWork \/ Progress
      <3>1. Enter \/ LockMain \/ FindMostWork \/ StepDisconnect \/ StepConnect \/ Progress
        BY <1>1, <2>1, Zenon DEF Next, vars, ActivateBestChain, NewHeader, NewBlock, InvalidateBlock,
           InvalidateRound, InvalidateEnd, ReconsiderBlock, MakePrecious, Prune, Restart
      <3> QED  BY <1>1, <3>1, Zenon DEF Enter, chainstateFree, LockMain, StepDisconnect, StepConnect
    <2>3. CASE FindMostWork
      <3>1. AbcOK
        BY <1>1, Zenon DEF IInv
      <3>2. PICK most \in MostWorkFound :
               UNCHANGED x /\ (most \in {NoBlock, x.tip})
        BY <1>1, <2>1, <2>3, <3>1, Zenon DEF FindMostWork, AbcOK
      <3> QED  BY <1>1, <2>3, <3>2, FoundIsBest, Zenon DEF FindMostWork
    <2>4. CASE Progress
      BY <1>1, <2>4 DEF Progress
    <2> QED  BY <2>2, <2>3, <2>4, Zenon
  <1>2. IInv /\ BInv /\ [Next]_vars =>
            [abc.pc \in {"find", "progress"} /\ abc'.pc \in {"outer", "outside"}
                 /\ abc.starting # NoBlock => ~Worse(x, x'.tip, abc.starting)]_vars
    BY <1>1, Zenon
  <1>3. IInv /\ BInv /\ [Next]_vars => BInv'
    BY NextBInv
  <1> QED  BY <1>2, <1>3, InitIInv, NextIInv, InitBInv, PTL DEF Spec, NeverBackward
=============================================================================
