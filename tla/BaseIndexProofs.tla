-------------------------- MODULE BaseIndexProofs --------------------------
(***************************************************************************)
(* That the index never loses a block, on any tree of blocks and for any   *)
(* number of changes of the tip, flushes, reads and restarts.              *)
(*                                                                         *)
(* The argument has three parts.  What is in the database and the file is  *)
(* complete up to the block that the thread in charge has come to; the     *)
(* callbacks in the queue lead from there to the tip; and after a clean    *)
(* shutdown the locator does not promise more than is there.               *)
(***************************************************************************)
EXTENDS BaseIndex, AncestryProofs

\* The node is shut down in an orderly way, and not before the sync thread has its
\* first block.  ThreadSync commits a locator ahead of the block it names, and the
\* locator of a null block names the tip: either way blocks would be skipped.
OrderlyStops == ~Crashes /\ ~EarlyInterrupts

BlockOrNone == Block \cup {NoBlock}
Entry == [block : BlockOrNone, pos : Nat]
Database == [height : [Heights -> Entry], hash : [Block -> Entry], locator : BlockOrNone,
             pos : Nat]
Item  == [kind : {"connected", "flushed", "sync"}, block : Block]

Below(b) == IF b = NoBlock THEN {} ELSE Ancestors[b]

\* The entry names b, and its place in the file, before n, holds the filter of b.
FilterAt(e, b, n) ==
    /\ e.block = b
    /\ e.pos \in DOMAIN file /\ file[e.pos] = b /\ e.pos < n

-----------------------------------------------------------------------------
(* The inductive invariant *)

\* The database's entries by height and by hash are of blocks of that height and hash.
DiskOK ==
    /\ db \in Database
    /\ m_next_filter_pos \in Nat /\ db.pos <= m_next_filter_pos
    /\ DOMAIN file \subseteq Nat /\ \A p \in DOMAIN file : file[p] \in Block
    /\ \A h \in Heights : \A b \in Block : db.height[h].block = b => Height[b] = h
    /\ \A b \in Block : db.hash[b].block \in {b, NoBlock}

\* Which thread is in charge: ThreadSync until m_synced is set, then the callbacks.
ThreadsOK ==
    /\ tip \in Block /\ flushed \in Block
    /\ m_synced \in BOOLEAN /\ m_interrupt \in BOOLEAN
    /\ m_best_block_index \in BlockOrNone
    /\ sync \in [pc : {"loop", "read", "write", "commit", "ended"}, pindex : BlockOrNone,
                 wrote : BOOLEAN]
    /\ call \in [pc : {"none", "rewind", "write", "written", "commit"}, block : BlockOrNone]
    /\ reader \in [pc : {"none", "waiting", "true"}, block : BlockOrNone]
    /\ halted \in {"no", "assert"}
    /\ m_interrupt => sync.pindex # NoBlock
    /\ m_synced => sync.pc \in {"commit", "ended"} /\ m_best_block_index # NoBlock
    /\ ~m_synced => sync.pc # "commit" /\ call.pc = "none" /\ reader.pc = "none"
    /\ sync.pc # "loop" => sync.pindex # NoBlock
    /\ sync.pc = "ended" => /\ db.locator # NoBlock
                            /\ ~m_synced => m_best_block_index = sync.pindex
    /\ call.pc \in {"rewind", "write", "written"} =>
           call.block \in Block \ {Genesis} /\ Parent[call.block] = m_best_block_index
    /\ reader.pc # "none" => reader.block # NoBlock
    /\ restarts \in Nat

\* The block that the thread in charge has written last.
Reached ==
    IF m_synced THEN IF call.pc = "written" THEN call.block ELSE m_best_block_index
    ELSE IF sync.pc \in {"read", "write"} THEN Prev(sync.pindex) ELSE sync.pindex

\* All blocks up to it have their filter.
WrittenOK ==
    \A a \in Below(Reached) : FilterAt(db.height[Height[a]], a, m_next_filter_pos)

\* A block that left the chain is found by its hash, or by its height as long as the
\* entry is there.
Kept(b) ==
    /\ db.height[Height[b]].block = b => FilterAt(db.height[Height[b]], b, m_next_filter_pos)
    /\ b \in Below(Reached) \/ FilterAt(db.hash[b], b, m_next_filter_pos)

\* No filter of this run of the node is lost, nor one that a reader relies on.
KeptOK ==
    /\ restarts = 0 => \A p \in DOMAIN file : Kept(file[p])
    /\ reader.pc = "true" => Kept(reader.block)

\* The active chain that an item of the queue continues, and the block it leads to.
From(e) == IF e.kind = "connected" THEN Prev(e.block) ELSE e.block

\* Each item of the queue continues the chain the one before it leads to, and the last
\* one leads to the tip or beyond: the tip moves down without a callback.
QueueOK ==
    /\ queue \in Seq(Item)
    /\ \A i \in 1..Len(queue) : queue[i].kind = "connected" => queue[i].block # Genesis
    /\ \A i \in 2..Len(queue) : From(queue[i]) \in Ancestors[queue[i - 1].block]
    /\ queue # <<>> => tip \in Ancestors[queue[Len(queue)].block]
    /\ \A i \in 1..Len(queue) : queue[i].kind = "sync" =>
           /\ reader = [pc |-> "waiting", block |-> queue[i].block]
           /\ \A j \in 1..Len(queue) : queue[j].kind = "sync" => j = i

\* The best block once the callback that runs is over.
Best == IF call.pc \in {"rewind", "write", "written"} THEN call.block ELSE m_best_block_index

\* The callbacks up to item i, those of older chains skipped, lead from the best block
\* to the block of item i.
Leads(i) == \E j \in 1..i : From(queue[j]) \in Ancestors[Best]

\* The callbacks lead to the tip, and those before a reader's to the reader's tip.
LeadsOK ==
    m_synced => /\ tip \in Ancestors[Best] \/ Leads(Len(queue))
                /\ \A i \in 1..Len(queue) : queue[i].kind = "sync" => Leads(i)

\* What the locator promises is in the database: all blocks up to it; or, after a
\* restart below it, those on the chain that was flushed; or a commit is due.
AllThere ==
    /\ db.locator \in Below(Reached)
    /\ \A a \in Ancestors[db.locator] : FilterAt(db.height[Height[a]], a, db.pos)

FlushedThere ==
    /\ m_synced /\ flushed \in Ancestors[m_best_block_index]
    /\ \A a \in Ancestors[db.locator] \cap Ancestors[flushed] :
           FilterAt(db.height[Height[a]], a, db.pos)

CommitDue == m_synced /\ \E i \in 1..Len(queue) : queue[i].kind = "flushed" /\ Leads(i)

LocatorOK ==
    sync.pc = "ended" /\ call.pc \notin {"rewind", "commit"} =>
        AllThere \/ FlushedThere \/ CommitDue

IInv == DiskOK /\ ThreadsOK /\ WrittenOK /\ KeptOK /\ QueueOK /\ LeadsOK /\ LocatorOK

-----------------------------------------------------------------------------
(* The database and the file *)

LEMMA HeightsAre ==
    /\ \A b \in Block : Height[b] \in Heights
    /\ \A b \in Block : \A h \in 0..Height[b] : h \in Heights
  BY AtEveryHeight, AncestorsEnds, Zenon DEF Heights

LEMMA CommittedFields ==
    ASSUME NEW d \in Database, m_next_filter_pos \in Nat, NEW best \in Block
    PROVE  /\ Committed(d, best) \in Database
           /\ Committed(d, best).height = d.height /\ Committed(d, best).hash = d.hash
           /\ Committed(d, best).locator = best
           /\ Committed(d, best).pos = m_next_filter_pos
  BY AncestryAssumption, Zenon DEF Committed, Database, BlockOrNone

\* Rewind copies the entries it finds by height to the index by hash.
LEMMA CopiedFields ==
    ASSUME DiskOK, NEW from \in Block, NEW to \in Nat
    PROVE  LET d == Copied(db, Height[from], to) IN
           /\ d \in Database
           /\ d.height = db.height /\ d.locator = db.locator /\ d.pos = m_next_filter_pos
           /\ \A b \in Block :
                 d.hash[b] = IF Height[b] \in to..Height[from] /\ db.height[Height[b]].block = b
                             THEN db.height[Height[b]] ELSE db.hash[b]
  <1> DEFINE New == [b \in Block |->
                        IF \E h \in to..Height[from] : db.height[h].block = b
                        THEN db.height[Height[b]] ELSE db.hash[b]]
             d == Copied(db, Height[from], to)
  <1>1. db \in Database /\ m_next_filter_pos \in Nat /\ Height[from] \in Nat
    BY HeightDef, Zenon DEF DiskOK
  <1>2. New \in [Block -> Entry]
    BY <1>1, HeightsAre, Zenon DEF Database
  <1>3. d = [db EXCEPT !.hash = New, !.pos = m_next_filter_pos]
    BY <1>1, Zenon DEF Copied, Database
  <1>4. ASSUME NEW b \in Block
        PROVE  New[b] = IF Height[b] \in to..Height[from] /\ db.height[Height[b]].block = b
                        THEN db.height[Height[b]] ELSE db.hash[b]
    <2>1. \A h \in to..Height[from] : h \in Heights
      BY <1>1, HeightsAre
    <2>2. (\E h \in to..Height[from] : db.height[h].block = b)
          <=> Height[b] \in to..Height[from] /\ db.height[Height[b]].block = b
      BY <2>1, Zenon DEF DiskOK
    <2> QED  BY <2>2, Zenon
  <1> HIDE DEF New
  <1>5. /\ d \in Database /\ d.hash = New
        /\ d.height = db.height /\ d.locator = db.locator /\ d.pos = m_next_filter_pos
    BY <1>1, <1>2, <1>3, Zenon DEF Database
  <1> QED  BY <1>4, <1>5, Zenon

\* A step that changes no entry and no filter.
LEMMA SameEntries ==
    ASSUME DiskOK, db' \in Database, db'.height = db.height, db'.hash = db.hash,
           db'.pos \in {db.pos, m_next_filter_pos}, UNCHANGED <<file, m_next_filter_pos>>
    PROVE  DiskOK'
  BY DEF DiskOK

LEMMA SameReached ==
    ASSUME WrittenOK, KeptOK, db'.height = db.height, db'.hash = db.hash,
           UNCHANGED <<file, m_next_filter_pos, restarts>>, Below(Reached)' = Below(Reached),
           reader'.pc = "true" => Kept(reader'.block)
    PROVE  WrittenOK' /\ KeptOK'
  <1>1. WrittenOK'
    BY Zenon DEF WrittenOK, FilterAt
  <1>2. \A b : Kept(b) => Kept(b)'
    BY Zenon DEF Kept, FilterAt
  <1> QED  BY <1>1, <1>2, Zenon DEF KeptOK

\* Rewind to a block below: what it leaves is found by hash from then on.
LEMMA Rewinding ==
    ASSUME DiskOK, ThreadsOK, WrittenOK, KeptOK, NEW from \in Block, from = Reached,
           NEW to \in Ancestors[from],
           db' \in Database, db'.height = db.height,
           db'.hash = Copied(db, Height[from], Height[to]).hash,
           db'.pos = m_next_filter_pos, UNCHANGED <<file, m_next_filter_pos, restarts, reader>>
    PROVE  /\ DiskOK'
           /\ Below(Reached)' = Ancestors[to] => WrittenOK' /\ KeptOK'
           /\ Below(Reached)' = Ancestors[from] => WrittenOK' /\ KeptOK'
  <1>1. /\ from # NoBlock /\ to \in Block /\ Height[to] \in Nat /\ Height[from] \in Nat
        /\ Ancestors[to] \subseteq Ancestors[from] /\ Below(Reached) = Ancestors[from]
    BY AncestryAssumption, AncestorsEnds, AncestorsClosed, HeightDef, Zenon DEF Below
  <1>2. \A b \in Block :
           db'.hash[b] = IF Height[b] \in Height[to]..Height[from] /\ db.height[Height[b]].block = b
                         THEN db.height[Height[b]] ELSE db.hash[b]
    BY <1>1, CopiedFields
  <1>3. DiskOK'
    <2>1. \A b \in Block : db'.hash[b].block \in {b, NoBlock}
      BY <1>2 DEF DiskOK
    <2> QED  BY <2>1 DEF DiskOK
  <1>4. \A b \in Block : FilterAt(db.height[Height[b]], b, m_next_filter_pos)
                         => FilterAt(db.height[Height[b]], b, m_next_filter_pos)'
    BY Zenon DEF FilterAt
  <1>5. ASSUME NEW b \in Block, Kept(b),
               b \in Ancestors[from] => b \in Below(Reached)' \/ b \notin Ancestors[to]
        PROVE  Kept(b)'
    <2>1. db'.height[Height[b]].block = b => FilterAt(db.height[Height[b]], b, m_next_filter_pos)'
      BY <1>4, <1>5, Zenon DEF Kept
    <2>2. CASE b \in Ancestors[from] /\ b \notin Ancestors[to]
      <3>1. to \in Ancestors[b]
        BY <1>1, <2>2, InARow, Zenon
      <3>2. Height[b] \in Nat /\ Height[to] <= Height[b] /\ Height[b] <= Height[from]
        BY <1>1, <2>2, <3>1, HeightDef, LowerBelow
      <3>3. FilterAt(db.height[Height[b]], b, m_next_filter_pos)
        BY <1>1, <2>2, Zenon DEF WrittenOK
      <3>4. db'.hash[b] = db.height[Height[b]]
        BY <1>1, <1>2, <3>2, <3>3 DEF FilterAt
      <3> QED  BY <2>1, <3>3, <3>4, Zenon DEF Kept, FilterAt
    <2>3. CASE FilterAt(db.hash[b], b, m_next_filter_pos)
      <3>1. FilterAt(db.hash[b], b, m_next_filter_pos)'
        BY <1>2, <1>5, <2>3, Zenon DEF Kept, FilterAt
      <3> QED  BY <2>1, <3>1, Zenon DEF Kept
    <2>4. CASE b \in Below(Reached)'
      BY <2>1, <2>4, Zenon DEF Kept
    <2> QED  BY <1>1, <1>5, <2>2, <2>3, <2>4, Zenon DEF Kept
  <1>6. ASSUME Ancestors[to] \subseteq Below(Reached)', Below(Reached)' \subseteq Ancestors[from]
        PROVE  WrittenOK' /\ KeptOK'
    <2>1. WrittenOK'
      BY <1>1, <1>4, <1>6, AncestorsEnds, Zenon DEF WrittenOK
    <2>2. \A b \in Block : Kept(b) => Kept(b)'
      BY <1>1, <1>5, <1>6, Zenon
    <2>3. reader.pc = "true" => reader.block \in Block
      BY Zenon DEF ThreadsOK, BlockOrNone
    <2> QED  BY <2>1, <2>2, <2>3, Zenon DEF KeptOK, DiskOK
  <1> QED  BY <1>1, <1>3, <1>6, Zenon

\* WriteBlock of the block above the last one written.
LEMMA Writing ==
    ASSUME DiskOK, ThreadsOK, WrittenOK, KeptOK, NEW b \in Block, Prev(b) = Reached,
           WriteBlock(b), UNCHANGED <<restarts, reader>>, Reached' = b
    PROVE  /\ DiskOK' /\ WrittenOK' /\ KeptOK'
           /\ db'.locator = db.locator /\ db'.pos = db.pos
           /\ \A a \in Below(Prev(b)) : \A k \in Nat :
                 k <= m_next_filter_pos /\ FilterAt(db.height[Height[a]], a, k)
                     => FilterAt(db.height[Height[a]], a, k)'
  <1> DEFINE n == m_next_filter_pos
             e == [block |-> b, pos |-> n]
  <1>1. /\ db \in Database /\ n \in Nat /\ Height[b] \in Heights /\ Height[b] \in Nat
        /\ b # NoBlock /\ DOMAIN file \subseteq Nat /\ \A p \in DOMAIN file : file[p] \in Block
    BY HeightsAre, HeightDef, AncestryAssumption, Zenon DEF DiskOK
  <1>2. e \in Entry /\ e.block = b /\ e.pos = n
    BY <1>1, Zenon DEF Entry, BlockOrNone
  <1>3. /\ file' = [p \in DOMAIN file \cup {n} |-> IF p = n THEN b ELSE file[p]]
        /\ db' = [db EXCEPT !.height[Height[b]] = e] /\ m_next_filter_pos' = n + 1
    BY Zenon DEF WriteBlock
  <1> HIDE DEF e
  <1>4. /\ db' \in Database /\ db'.hash = db.hash /\ db'.locator = db.locator /\ db'.pos = db.pos
        /\ db'.height = [db.height EXCEPT ![Height[b]] = e]
    BY <1>1, <1>2, <1>3, Zenon DEF Database
  <1>5. /\ db'.height[Height[b]] = e
        /\ \A h \in Heights \ {Height[b]} : db'.height[h] = db.height[h]
    BY <1>1, <1>4, Zenon DEF Database
  <1>6. /\ DOMAIN file' = DOMAIN file \cup {n} /\ file'[n] = b
        /\ \A p \in DOMAIN file \ {n} : file'[p] = file[p]
    BY <1>3, Zenon
  <1>7. /\ DiskOK'
    <2>1. DOMAIN file' \subseteq Nat /\ \A p \in DOMAIN file' : file'[p] \in Block
      BY <1>1, <1>6, Zenon
    <2>2. \A h \in Heights : \A c \in Block : db'.height[h].block = c => Height[c] = h
      BY <1>2, <1>5 DEF DiskOK
    <2>3. n + 1 \in Nat /\ (db.pos <= n => db.pos <= n + 1)
      BY <1>1 DEF Database
    <2> QED  BY <1>3, <1>4, <2>1, <2>2, <2>3, Zenon DEF DiskOK
  <1>8. ASSUME NEW c \in Entry, NEW q, NEW k \in Nat, k <= n, FilterAt(c, q, k)
        PROVE  FilterAt(c, q, k)' /\ FilterAt(c, q, m_next_filter_pos)'
    BY <1>1, <1>3, <1>6, <1>8 DEF FilterAt, Entry
  <1>9. FilterAt(db.height[Height[b]], b, m_next_filter_pos)'
    BY <1>1, <1>2, <1>3, <1>5, <1>6 DEF FilterAt
  <1>10. \A c \in Block : db.height[Height[c]] \in Entry /\ db.hash[c] \in Entry
    BY <1>1, HeightsAre, Zenon DEF Database
  <1>11. ASSUME NEW a \in Below(Prev(b))
         PROVE  a \in Block /\ db'.height[Height[a]] = db.height[Height[a]] /\ a \in Ancestors[b]
    <2>1. b # Genesis /\ a \in Ancestors[Parent[b]] /\ Parent[b] \in Block
      BY AncestryAssumption, Zenon DEF Below, Prev
    <2>2. a \in Block /\ a \in Ancestors[b]
      BY <2>1, AncestorsEnds, AncestorsDef, Zenon
    <2>3. Height[a] \in Nat /\ Height[Parent[b]] \in Nat /\ Height[b] = 1 + Height[Parent[b]]
      BY <2>1, <2>2, HeightDef, Zenon
    <2>4. Height[a] # Height[b]
      BY <2>1, <2>3, LowerBelow
    <2> QED  BY <1>5, <2>2, <2>4, HeightsAre, Zenon
  <1>12. \A a \in Below(Prev(b)) : \A k \in Nat :
            k <= n /\ FilterAt(db.height[Height[a]], a, k)
                => FilterAt(db.height[Height[a]], a, k)'
    <2> SUFFICES ASSUME NEW a \in Below(Prev(b)), NEW k \in Nat, k <= n,
                        FilterAt(db.height[Height[a]], a, k)
                 PROVE  FilterAt(db.height[Height[a]], a, k)'
      BY Zenon
    <2> DEFINE c == db.height[Height[a]]
    <2>1. PICK d \in Entry : d = c
      BY <1>10, <1>11, Zenon
    <2>2. FilterAt(d, a, k)'
      BY <1>8, <2>1, Zenon
    <2> QED  BY <1>11, <2>1, <2>2, Zenon DEF FilterAt
  <1>13. WrittenOK'
    <2> SUFFICES ASSUME NEW a \in Ancestors[b]
                 PROVE  FilterAt(db.height[Height[a]], a, m_next_filter_pos)'
      BY <1>1, Zenon DEF WrittenOK, Below
    <2>1. CASE a = b
      BY <1>9, <2>1, Zenon
    <2>2. CASE a # b
      <3>1. b # Genesis /\ a \in Ancestors[Parent[b]] /\ Parent[b] # NoBlock
        BY <2>2, AncestorsDef, AncestryAssumption
      <3>2. a \in Below(Prev(b))
        BY <3>1, Zenon DEF Below, Prev
      <3>3. FilterAt(db.height[Height[a]], a, n)
        BY <3>2, Zenon DEF WrittenOK
      <3>4. PICK d \in Entry : d = db.height[Height[a]]
        BY <1>10, <1>11, <3>2, Zenon
      <3>5. FilterAt(d, a, m_next_filter_pos)'
        BY <1>1, <1>8, <3>3, <3>4
      <3> QED  BY <1>11, <3>2, <3>4, <3>5, Zenon DEF FilterAt
    <2> QED  BY <2>1, <2>2, Zenon
  <1>14. ASSUME NEW c \in Block, Kept(c) PROVE Kept(c)'
    <2>1. c \in Below(Reached) => c \in Below(Reached)'
      BY <1>1, <1>11, Zenon DEF Below
    <2>2. FilterAt(db.hash[c], c, n) => FilterAt(db.hash[c], c, m_next_filter_pos)'
      <3>1. PICK d \in Entry : d = db.hash[c]
        BY <1>10, Zenon
      <3> QED  BY <1>1, <1>4, <1>8, <3>1 DEF FilterAt
    <2>3. ASSUME db'.height[Height[c]].block = c
          PROVE  FilterAt(db.height[Height[c]], c, m_next_filter_pos)'
      <3>1. CASE c = b
        BY <1>9, <3>1, Zenon
      <3>2. CASE c # b
        <4>1. Height[c] # Height[b] /\ db'.height[Height[c]] = db.height[Height[c]]
          BY <1>2, <1>5, <2>3, <3>2, HeightsAre, Zenon
        <4>2. FilterAt(db.height[Height[c]], c, n)
          BY <1>14, <2>3, <4>1, Zenon DEF Kept
        <4>3. PICK d \in Entry : d = db.height[Height[c]]
          BY <1>10, Zenon
        <4>4. FilterAt(d, c, m_next_filter_pos)'
          BY <1>1, <1>8, <4>2, <4>3
        <4> QED  BY <4>1, <4>3, <4>4, Zenon DEF FilterAt
      <3> QED  BY <3>1, <3>2, Zenon
    <2> QED  BY <1>14, <2>1, <2>2, <2>3, Zenon DEF Kept
  <1>15. Kept(b)'
    BY <1>1, <1>9, AncestorsEnds, Zenon DEF Kept, Below
  <1>16. KeptOK'
    <2>1. \A p \in DOMAIN file' : file'[p] = b \/ (p \in DOMAIN file /\ file'[p] = file[p])
      BY <1>6, Zenon
    <2>2. restarts = 0 => \A p \in DOMAIN file' : Kept(file[p])'
      BY <1>1, <1>14, <1>15, <2>1, Zenon DEF KeptOK
    <2>3. reader.pc = "true" => reader.block \in Block
      BY Zenon DEF ThreadsOK, BlockOrNone
    <2> QED  BY <1>14, <2>2, <2>3, Zenon DEF KeptOK
  <1> QED  BY <1>4, <1>7, <1>12, <1>13, <1>16, Zenon

-----------------------------------------------------------------------------
(* The queue *)

LEMMA ItemBlocks ==
    ASSUME QueueOK
    PROVE  /\ Len(queue) \in Nat
           /\ \A i \in 1..Len(queue) : /\ queue[i] \in Item /\ queue[i].block \in Block
                                       /\ From(queue[i]) \in Ancestors[queue[i].block]
                                       /\ From(queue[i]) \in Block
  <1>1. Len(queue) \in Nat /\ \A i \in 1..Len(queue) : queue[i] \in Item
    BY DEF QueueOK
  <1>2. ASSUME NEW i \in 1..Len(queue)
        PROVE  From(queue[i]) \in Ancestors[queue[i].block]
    <2>1. queue[i].block \in Block
          /\ (queue[i].kind = "connected" => queue[i].block # Genesis)
      BY <1>1, Zenon DEF QueueOK, Item
    <2> QED  BY <2>1, AncestorsEnds, ParentBelow, Zenon DEF From, Prev
  <1> QED  BY <1>1, <1>2, AncestorsEnds, Zenon DEF Item

\* The scheduler takes the first item.
LEMMA Taken ==
    ASSUME QueueOK, queue # <<>>, queue' = Tail(queue), UNCHANGED tip,
           queue[1].kind # "sync" => UNCHANGED reader
    PROVE  QueueOK'
  <1>1. /\ Len(queue) \in Nat \ {0} /\ Len(queue') = Len(queue) - 1 /\ queue' \in Seq(Item)
        /\ \A i \in 1..Len(queue') : queue'[i] = queue[i + 1] /\ i + 1 \in 1..Len(queue)
    BY DEF QueueOK
  <1>2. \A i \in 1..Len(queue') : queue'[i].kind = "connected" => queue'[i].block # Genesis
    BY <1>1, Zenon DEF QueueOK
  <1>3. ASSUME NEW i \in 2..Len(queue')
        PROVE  From(queue'[i]) \in Ancestors[queue'[i - 1].block]
    <2>1. queue'[i] = queue[i + 1] /\ queue'[i - 1] = queue[(i + 1) - 1] /\ i + 1 \in 2..Len(queue)
      BY <1>1
    <2>2. From(queue[i + 1]) \in Ancestors[queue[(i + 1) - 1].block]
      BY <2>1, Zenon DEF QueueOK
    <2> QED  BY <2>1, <2>2, Zenon
  <1>4. queue' # <<>> => tip' \in Ancestors[queue'[Len(queue')].block]
    BY <1>1 DEF QueueOK
  <1>5. ASSUME NEW i \in 1..Len(queue'), queue'[i].kind = "sync"
        PROVE  /\ reader' = [pc |-> "waiting", block |-> queue'[i].block]
               /\ \A j \in 1..Len(queue') : queue'[j].kind = "sync" => j = i
    <2>1. queue[i + 1].kind = "sync" /\ i + 1 \in 1..Len(queue) /\ i + 1 # 1 /\ 1 \in 1..Len(queue)
      BY <1>1, <1>5
    <2>2. queue[1].kind # "sync" /\ reader = [pc |-> "waiting", block |-> queue[i + 1].block]
      BY <2>1, Zenon DEF QueueOK
    <2>3. \A j \in 1..Len(queue) : queue[j].kind = "sync" => j = i + 1
      BY <2>1, Zenon DEF QueueOK
    <2>4. \A j \in 1..Len(queue') : queue'[j].kind = "sync" => j = i
      BY <1>1, <2>3
    <2>5. reader' = [pc |-> "waiting", block |-> queue'[i].block]
      BY <1>1, <2>2, Zenon
    <2> QED  BY <2>4, <2>5, Zenon
  <1> QED  BY <1>1, <1>2, <1>3, <1>4, <1>5, Zenon DEF QueueOK, From

\* If the first item continues the best chain, the best chain then reaches its block;
\* if not, the item is skipped.
LEMMA TakenLeads ==
    ASSUME QueueOK, LeadsOK, m_synced, m_synced', Best \in Block, Best' \in Block,
           queue # <<>>, queue' = Tail(queue), UNCHANGED tip,
           IF From(queue[1]) \in Ancestors[Best]
           THEN queue[1].block \in Ancestors[Best'] ELSE Best' = Best
    PROVE  /\ LeadsOK'
           /\ \A i \in 2..Len(queue) : Leads(i) => Leads(i - 1)'
  <1>1. /\ Len(queue) \in Nat \ {0} /\ Len(queue') = Len(queue) - 1 /\ 1 \in 1..Len(queue)
        /\ \A i \in 1..Len(queue') : queue'[i] = queue[i + 1] /\ i + 1 \in 1..Len(queue)
    BY DEF QueueOK
  <1>2. \A i \in 1..Len(queue) : queue[i].block \in Block
    BY ItemBlocks, Zenon
  <1>3. ASSUME From(queue[1]) \in Ancestors[Best], NEW t \in Ancestors[queue[1].block]
        PROVE  t \in Ancestors[Best']
    BY <1>1, <1>2, <1>3, AncestorsClosed, Zenon
  <1>4. ASSUME NEW i \in 2..Len(queue), Leads(i) PROVE Leads(i - 1)'
    <2>1. PICK j \in 1..i : From(queue[j]) \in Ancestors[Best]
      BY <1>4, Zenon DEF Leads
    <2>2. CASE From(queue[1]) \in Ancestors[Best]
      <3>1. 2 \in 2..Len(queue) /\ 2 - 1 = 1 /\ 1 \in 1..Len(queue') /\ queue'[1] = queue[2]
            /\ 1 \in 1..(i - 1)
        BY <1>1
      <3>2. From(queue[2]) \in Ancestors[queue[1].block]
        BY <3>1, Zenon DEF QueueOK
      <3>3. From(queue'[1]) \in Ancestors[Best']
        BY <1>3, <2>2, <3>1, <3>2, Zenon
      <3> QED  BY <3>1, <3>3, Zenon DEF Leads, From
    <2>3. CASE From(queue[1]) \notin Ancestors[Best]
      <3>1. j # 1 /\ j - 1 \in 1..(i - 1) /\ j - 1 \in 1..Len(queue') /\ (j - 1) + 1 = j
        BY <1>1, <2>1, <2>3
      <3>2. queue'[j - 1] = queue[j]
        BY <1>1, <3>1, Zenon
      <3>3. From(queue'[j - 1]) \in Ancestors[Best']
        BY <2>1, <2>3, <3>2, Zenon
      <3> QED  BY <3>1, <3>3, Zenon DEF Leads, From
    <2> QED  BY <2>2, <2>3, Zenon
  <1>5. tip' \in Ancestors[Best'] \/ Leads(Len(queue))'
    <2>1. CASE From(queue[1]) \in Ancestors[Best] /\ Len(queue) = 1
      <3>1. tip \in Ancestors[queue[1].block]
        BY <2>1, Zenon DEF QueueOK
      <3> QED  BY <1>3, <2>1, <3>1, Zenon
    <2>2. CASE From(queue[1]) \in Ancestors[Best] /\ Len(queue) # 1
      <3>1. 2 \in 2..Len(queue) /\ 2 - 1 = 1 /\ 1 \in 1..Len(queue') /\ queue'[1] = queue[2]
        BY <1>1, <2>2
      <3>2. From(queue[2]) \in Ancestors[queue[1].block]
        BY <3>1, Zenon DEF QueueOK
      <3>3. From(queue'[1]) \in Ancestors[Best']
        BY <1>3, <2>2, <3>1, <3>2, Zenon
      <3> QED  BY <3>1, <3>3, Zenon DEF Leads, From
    <2>3. CASE From(queue[1]) \notin Ancestors[Best] /\ Leads(Len(queue))
      <3>1. PICK j \in 1..Len(queue) : From(queue[j]) \in Ancestors[Best]
        BY <2>3, Zenon DEF Leads
      <3>2. j # 1 /\ j - 1 \in 1..Len(queue') /\ (j - 1) + 1 = j
        BY <1>1, <2>3, <3>1
      <3>3. queue'[j - 1] = queue[j]
        BY <1>1, <3>2, Zenon
      <3>4. From(queue'[j - 1]) \in Ancestors[Best']
        BY <2>3, <3>1, <3>3, Zenon
      <3> QED  BY <3>2, <3>4, Zenon DEF Leads, From
    <2>4. CASE From(queue[1]) \notin Ancestors[Best] /\ tip \in Ancestors[Best]
      BY <2>4, Zenon
    <2> QED  BY <2>1, <2>2, <2>3, <2>4, Zenon DEF LeadsOK
  <1>6. ASSUME NEW i \in 1..Len(queue'), queue'[i].kind = "sync" PROVE Leads(i)'
    <2>1. i + 1 \in 2..Len(queue) /\ queue[i + 1].kind = "sync" /\ (i + 1) - 1 = i
      BY <1>1, <1>6
    <2>2. Leads(i + 1)
      BY <1>1, <2>1, Zenon DEF LeadsOK
    <2> QED  BY <1>4, <2>1, <2>2, Zenon
  <1> QED  BY <1>4, <1>5, <1>6, Zenon DEF LeadsOK

\* The callbacks for a new tip b lead from the fork with the old tip to b.
LEMMA ConnectedPath ==
    ASSUME tip \in Block, NEW b \in Block
    PROVE  /\ Connected(b) \in Seq(Item)
           /\ \A i \in 1..Len(Connected(b)) :
                 Connected(b)[i].kind = "connected" /\ Connected(b)[i].block # Genesis
           /\ \A i \in 2..Len(Connected(b)) :
                 From(Connected(b)[i]) = Connected(b)[i - 1].block
           /\ IF Connected(b) = <<>> THEN b \in Ancestors[tip]
              ELSE /\ From(Connected(b)[1]) \in Ancestors[tip]
                   /\ Connected(b)[Len(Connected(b))].block = b
  <1> DEFINE f == LastCommonAncestor(tip, b)
             k == Height[f]
             m == Height[b] - k
             c == Connected(b)
  <1>1. f \in Ancestors[tip] /\ f \in Ancestors[b] /\ f \in Block
    BY ForkDef, AncestorsEnds, Zenon
  <1>2. k \in Nat /\ Height[b] \in Nat /\ k <= Height[b] /\ m \in Nat
    BY <1>1, HeightDef, LowerBelow
  <1>3. c = [i \in 1..m |-> [kind |-> "connected", block |-> GetAncestor(b, k + i)]]
    BY Zenon DEF Connected
  <1> HIDE DEF f, k, c
  <1>4. ASSUME NEW i \in 1..m
        PROVE  /\ GetAncestor(b, k + i) \in Ancestors[b] /\ Height[GetAncestor(b, k + i)] = k + i
               /\ GetAncestor(b, k + i) \in Block \ {Genesis}
    <2>1. k + i \in 0..Height[b] /\ k + i \in Int /\ k + i # 0
      BY <1>2
    <2>2. GetAncestor(b, k + i) \in Ancestors[b] /\ Height[GetAncestor(b, k + i)] = k + i
      BY <2>1, GetAncestorDef, Zenon
    <2> QED  BY <2>1, <2>2, AncestorsEnds, HeightDef, Zenon
  <1>5. c \in Seq(Item) /\ Len(c) = m /\ DOMAIN c = 1..m
    <2>1. \A i \in 1..m : [kind |-> "connected", block |-> GetAncestor(b, k + i)] \in Item
      BY <1>4, Zenon DEF Item
    <2>2. c \in [1..m -> Item]
      BY <1>3, <2>1, Zenon
    <2> QED  BY <1>2, <2>2
  <1>6. \A i \in 1..m : c[i].kind = "connected" /\ c[i].block = GetAncestor(b, k + i)
    BY <1>3, Zenon
  <1>7. ASSUME NEW i \in 1..m
        PROVE  /\ From(c[i]) = Parent[c[i].block] /\ From(c[i]) \in Ancestors[b]
               /\ Height[From(c[i])] = (k + i) - 1
    <2>1. From(c[i]) = Parent[c[i].block]
      BY <1>4, <1>6, Zenon DEF From, Prev
    <2>2. Parent[c[i].block] \in Ancestors[b] /\ Parent[c[i].block] \in Block
      BY <1>4, <1>6, ParentBelow, AncestorsEnds, Zenon
    <2>3. Height[c[i].block] = 1 + Height[Parent[c[i].block]]
          /\ Height[Parent[c[i].block]] \in Nat /\ Height[c[i].block] = k + i
      BY <1>4, <1>6, <2>2, HeightDef
    <2> QED  BY <1>2, <2>1, <2>2, <2>3
  <1>8. ASSUME NEW i \in 2..m PROVE From(c[i]) = c[i - 1].block
    <2>1. i \in 1..m /\ i - 1 \in 1..m /\ k + (i - 1) = (k + i) - 1
      BY <1>2
    <2>2. c[i - 1].block \in Ancestors[b] /\ Height[c[i - 1].block] = (k + i) - 1
      BY <1>4, <1>6, <2>1, Zenon
    <2> QED  BY <1>7, <2>1, <2>2, OneAtAHeight
  <1>9. CASE m = 0
    <2>1. f = b
      BY <1>1, <1>2, <1>9, LowerBelow DEF k
    <2> QED  BY <1>1, <1>5, <1>6, <1>9, <2>1 DEF c
  <1>10. CASE m # 0
    <2>1. 1 \in 1..m /\ m \in 1..m /\ k + m = Height[b] /\ (k + 1) - 1 = k /\ c # <<>>
      BY <1>2, <1>5, <1>10
    <2>2. From(c[1]) = f
      BY <1>1, <1>7, <2>1, OneAtAHeight, Zenon DEF k
    <2>3. c[m].block = b
      BY <1>4, <1>6, <2>1, OneAtAHeight, AncestorsEnds, Zenon
    <2> QED  BY <1>1, <1>4, <1>5, <1>6, <1>8, <2>1, <2>2, <2>3 DEF c
  <1> QED  BY <1>9, <1>10, Zenon

\* Validation or a reader puts items into the queue.
LEMMA Queued ==
    ASSUME QueueOK, tip \in Block, NEW items \in Seq(Item), queue' = queue \o items,
           \A i \in 1..Len(items) : items[i].kind = "connected" => items[i].block # Genesis,
           \A i \in 2..Len(items) : From(items[i]) \in Ancestors[items[i - 1].block],
           IF items = <<>> THEN tip' \in Ancestors[tip]
           ELSE From(items[1]) \in Ancestors[tip] /\ tip' \in Ancestors[items[Len(items)].block],
           \A i \in 1..Len(queue') : queue'[i].kind = "sync" =>
               /\ reader' = [pc |-> "waiting", block |-> queue'[i].block]
               /\ \A j \in 1..Len(queue') : queue'[j].kind = "sync" => j = i
    PROVE  QueueOK'
  <1>1. /\ queue \in Seq(Item) /\ Len(queue) \in Nat /\ Len(items) \in Nat
        /\ queue' \in Seq(Item) /\ Len(queue') = Len(queue) + Len(items)
        /\ \A i \in 1..Len(queue) : queue'[i] = queue[i]
        /\ \A i \in 1..Len(items) : queue'[Len(queue) + i] = items[i]
    BY DEF QueueOK
  <1>2. ASSUME NEW i \in 1..Len(queue')
        PROVE  i \in 1..Len(queue) \/ \E j \in 1..Len(items) : i = Len(queue) + j
    <2>1. i <= Len(queue) \/ i - Len(queue) \in 1..Len(items)
      BY <1>1
    <2> QED  BY <1>1, <2>1
  <1>3. \A i \in 1..Len(queue') : queue'[i].kind = "connected" => queue'[i].block # Genesis
    BY <1>1, <1>2 DEF QueueOK
  <1>4. queue # <<>> => tip \in Ancestors[queue[Len(queue)].block]
                        /\ queue[Len(queue)].block \in Block
    BY <1>1, ItemBlocks DEF QueueOK
  <1>5. ASSUME NEW i \in 2..Len(queue')
        PROVE  From(queue'[i]) \in Ancestors[queue'[i - 1].block]
    <2>1. CASE i \in 2..Len(queue)
      <3>1. queue'[i] = queue[i] /\ queue'[i - 1] = queue[i - 1]
        BY <1>1, <2>1
      <3> QED  BY <2>1, <3>1, Zenon DEF QueueOK
    <2>2. CASE i = Len(queue) + 1 /\ queue # <<>>
      <3>1. /\ queue'[i] = items[1] /\ queue'[i - 1] = queue[Len(queue)] /\ items # <<>>
        BY <1>1, <2>2
      <3> QED  BY <1>4, <2>2, <3>1, AncestorsClosed, Zenon
    <2>3. ASSUME NEW j \in 2..Len(items), i = Len(queue) + j
          PROVE  From(queue'[i]) \in Ancestors[queue'[i - 1].block]
      <3>1. i - 1 = Len(queue) + (j - 1) /\ j - 1 \in 1..Len(items) /\ j \in 1..Len(items)
        BY <1>1, <2>3
      <3>2. queue'[i] = items[j] /\ queue'[i - 1] = items[j - 1]
        BY <1>1, <2>3, <3>1, Zenon
      <3> QED  BY <3>2, Zenon
    <2>4. i \in 2..Len(queue) \/ (i = Len(queue) + 1 /\ queue # <<>>)
          \/ i - Len(queue) \in 2..Len(items)
      BY <1>1
    <2>5. i = Len(queue) + (i - Len(queue))
      BY <1>1
    <2> QED  BY <2>1, <2>2, <2>3, <2>4, <2>5, Zenon
  <1>6. queue' # <<>> => tip' \in Ancestors[queue'[Len(queue')].block]
    <2>1. CASE items = <<>>
      <3>1. queue' = queue
        BY <1>1, <2>1
      <3> QED  BY <1>4, <2>1, <3>1, AncestorsClosed, Zenon
    <2>2. CASE items # <<>>
      <3>1. queue'[Len(queue')] = items[Len(items)]
        BY <1>1, <2>2
      <3> QED  BY <2>2, <3>1, Zenon
    <2> QED  BY <2>1, <2>2, Zenon
  <1> QED  BY <1>1, <1>3, <1>5, <1>6, Zenon DEF QueueOK, From

\* What led to a block still does.
LEMMA QueuedLeads ==
    ASSUME QueueOK, NEW items \in Seq(Item), queue' = queue \o items, Best' = Best
    PROVE  /\ Len(queue') = Len(queue) + Len(items)
           /\ \A i \in 1..Len(queue) : Leads(i) => Leads(i)'
           /\ \A i \in 1..Len(queue) : queue'[i] = queue[i]
  <1>1. /\ Len(queue) \in Nat /\ Len(items) \in Nat /\ Len(queue') = Len(queue) + Len(items)
        /\ \A i \in 1..Len(queue) : queue'[i] = queue[i]
    BY DEF QueueOK
  <1>2. ASSUME NEW i \in 1..Len(queue), Leads(i) PROVE Leads(i)'
    <2>1. PICK j \in 1..i : From(queue[j]) \in Ancestors[Best]
      BY <1>2, Zenon DEF Leads
    <2>2. From(queue'[j]) \in Ancestors[Best']
      BY <1>1, <2>1
    <2> QED  BY <2>2, Zenon DEF Leads, From
  <1> QED  BY <1>1, <1>2, Zenon

\* The callbacks have written the best block and perhaps one more.
LEMMA BestReached ==
    ASSUME ThreadsOK, m_synced
    PROVE  /\ m_best_block_index \in Block /\ Best \in Block /\ Reached \in Block
           /\ m_best_block_index \in Below(Reached)
           /\ Ancestors[m_best_block_index] \subseteq Below(Reached)
           /\ Below(Reached) \subseteq Ancestors[Best]
  <1>1. m_best_block_index \in Block
    BY Zenon DEF ThreadsOK, BlockOrNone
  <1>2. CASE call.pc \in {"rewind", "write", "written"}
    <2>1. /\ call.block \in Block \ {Genesis} /\ Parent[call.block] = m_best_block_index
          /\ call.block # NoBlock /\ m_best_block_index # NoBlock
      BY <1>1, <1>2, AncestryAssumption, Zenon DEF ThreadsOK
    <2>2. /\ Ancestors[m_best_block_index] \subseteq Ancestors[call.block]
          /\ m_best_block_index \in Ancestors[m_best_block_index]
      BY <1>1, <2>1, AncestorsDef, AncestorsEnds
    <2> QED  BY <1>1, <1>2, <2>1, <2>2, Zenon DEF Reached, Below, Best
  <1>3. CASE call.pc \notin {"rewind", "write", "written"}
    BY <1>1, <1>3, AncestryAssumption, AncestorsEnds, Zenon DEF Reached, Below, Best
  <1> QED  BY <1>2, <1>3, Zenon

-----------------------------------------------------------------------------
(* Validation and the reader *)

\* The index does nothing while items are put into the queue.
LEMMA WhileQueued ==
    ASSUME IInv, NEW items \in Seq(Item), queue' = queue \o items,
           UNCHANGED <<memory, disk, sync, call, restarts>>,
           reader'.pc = "true" => Kept(reader'.block),
           m_synced => tip' \in Ancestors[Best] \/ Leads(Len(queue))',
           \A i \in 1..Len(queue') : m_synced /\ i > Len(queue) /\ queue'[i].kind = "sync" => Leads(i)',
           flushed' = flushed \/ (m_synced => CommitDue')
    PROVE  DiskOK' /\ WrittenOK' /\ KeptOK' /\ LeadsOK' /\ LocatorOK'
  <1>1. /\ UNCHANGED <<m_synced, m_best_block_index, m_next_filter_pos, db, file, sync, call,
                       restarts>>
        /\ DiskOK /\ WrittenOK /\ KeptOK /\ QueueOK /\ LeadsOK /\ LocatorOK
    BY Zenon DEF memory, disk, IInv
  <1>2. Best' = Best /\ Reached' = Reached /\ Below(Reached)' = Below(Reached)
    BY <1>1 DEF Best, Reached, Below
  <1>3. DiskOK'
    BY <1>1, Zenon DEF DiskOK
  <1>4. WrittenOK' /\ KeptOK'
    BY <1>1, <1>2, SameReached, Zenon
  <1>5. /\ Len(queue') = Len(queue) + Len(items)
        /\ \A i \in 1..Len(queue) : Leads(i) => Leads(i)'
        /\ \A i \in 1..Len(queue) : queue'[i] = queue[i]
    BY <1>1, <1>2, QueuedLeads, Zenon
  <1>6. ASSUME m_synced, NEW i \in 1..Len(queue'), queue'[i].kind = "sync" PROVE Leads(i)'
    <2>1. Len(queue) \in Nat /\ Len(items) \in Nat
      BY <1>1 DEF QueueOK
    <2>2. CASE i \in 1..Len(queue)
      BY <1>1, <1>5, <1>6, <2>2, Zenon DEF LeadsOK
    <2>3. CASE i > Len(queue)
      BY <1>6, <2>3, Zenon
    <2> QED  BY <1>5, <2>1, <2>2, <2>3
  <1>7. LeadsOK'
    <2>1. m_synced => tip' \in Ancestors[Best'] \/ Leads(Len(queue))'
      BY <1>2, Zenon
    <2> QED  BY <1>1, <1>6, <2>1, Zenon DEF LeadsOK
  <1>8. CommitDue => CommitDue'
    <2> SUFFICES ASSUME CommitDue PROVE CommitDue'
      BY Zenon
    <2>1. PICK i \in 1..Len(queue) : queue[i].kind = "flushed" /\ Leads(i)
      BY Zenon DEF CommitDue
    <2>2. Len(queue) \in Nat /\ Len(items) \in Nat
      BY <1>1 DEF QueueOK
    <2>3. i \in 1..Len(queue') /\ queue'[i].kind = "flushed" /\ Leads(i)'
      BY <1>5, <2>1, <2>2
    <2> QED  BY <1>1, <2>1, <2>3, Zenon DEF CommitDue
  <1>9. AllThere => AllThere'
    BY <1>1, <1>2, Zenon DEF AllThere, FilterAt
  <1>10. FlushedThere => FlushedThere' \/ CommitDue'
    BY <1>1, Zenon DEF FlushedThere, FilterAt
  <1>11. LocatorOK'
    BY <1>1, <1>8, <1>9, <1>10, Zenon DEF LocatorOK
  <1> QED  BY <1>3, <1>4, <1>7, <1>11, Zenon

\* The new tip's callbacks begin at the fork with the old one.
LEMMA ActivateChainOK ==
    ASSUME IInv, NEW b \in Block, ActivateChain(b)
    PROVE  IInv'
  <1> DEFINE c == Connected(b)
  <1>1. /\ tip' = b /\ queue' = queue \o c
        /\ UNCHANGED <<flushed, memory, disk, sync, call, reader, halted, restarts>>
    BY Zenon DEF ActivateChain
  <1>2. UNCHANGED <<m_synced, m_best_block_index, m_interrupt, db>>
    BY <1>1, Zenon DEF memory, disk
  <1>3. DiskOK /\ ThreadsOK /\ KeptOK /\ QueueOK /\ LeadsOK /\ tip \in Block
    BY Zenon DEF IInv, ThreadsOK
  <1>4. ThreadsOK'
    BY <1>1, <1>2, <1>3 DEF ThreadsOK
  <1>5. /\ c \in Seq(Item)
        /\ \A i \in 1..Len(c) : c[i].kind = "connected" /\ c[i].block # Genesis
        /\ \A i \in 2..Len(c) : From(c[i]) = c[i - 1].block
        /\ IF c = <<>> THEN b \in Ancestors[tip]
           ELSE From(c[1]) \in Ancestors[tip] /\ c[Len(c)].block = b
    BY <1>3, ConnectedPath, Zenon
  <1> HIDE DEF c
  <1>6. /\ Len(c) \in Nat /\ Len(queue) \in Nat /\ (c # <<>> => Len(c) # 0)
        /\ Len(queue') = Len(queue) + Len(c)
        /\ \A i \in 1..Len(queue) : queue'[i] = queue[i]
        /\ \A i \in 1..Len(c) : queue'[Len(queue) + i] = c[i]
    BY <1>1, <1>3, <1>5 DEF QueueOK
  <1>7. \A i \in 1..Len(c) : c[i] \in Item /\ c[i].block \in Block
    <2>1. \A i \in 1..Len(c) : c[i] \in Item
      BY <1>5
    <2> QED  BY <2>1, Zenon DEF Item
  <1>8. ASSUME NEW i \in 1..Len(queue'), i > Len(queue) PROVE queue'[i].kind # "sync"
    <2>1. i - Len(queue) \in 1..Len(c) /\ i = Len(queue) + (i - Len(queue))
      BY <1>6, <1>8
    <2>2. queue'[i].kind = "connected"
      BY <1>5, <1>6, <2>1, Zenon
    <2> QED  BY <2>2, Zenon
  <1>9. QueueOK'
    <2>1. \A i \in 2..Len(c) : From(c[i]) \in Ancestors[c[i - 1].block]
      <3>1. \A i \in 2..Len(c) : i - 1 \in 1..Len(c)
        BY <1>6
      <3> QED  BY <1>5, <1>7, <3>1, AncestorsEnds, Zenon
    <2>2. c # <<>> => tip' \in Ancestors[c[Len(c)].block]
      BY <1>1, <1>5, AncestorsEnds, Zenon
    <2>3. ASSUME NEW i \in 1..Len(queue'), queue'[i].kind = "sync"
          PROVE  i \in 1..Len(queue) /\ queue[i].kind = "sync" /\ queue'[i] = queue[i]
      BY <1>6, <1>8, <2>3
    <2>4. \A i \in 1..Len(queue') : queue'[i].kind = "sync" =>
              /\ reader' = [pc |-> "waiting", block |-> queue'[i].block]
              /\ \A j \in 1..Len(queue') : queue'[j].kind = "sync" => j = i
      BY <1>1, <1>3, <2>3 DEF QueueOK
    <2>5. IF c = <<>> THEN tip' \in Ancestors[tip]
          ELSE From(c[1]) \in Ancestors[tip] /\ tip' \in Ancestors[c[Len(c)].block]
      BY <1>1, <1>5, <2>2, Zenon
    <2>6. \A i \in 1..Len(c) : c[i].kind = "connected" => c[i].block # Genesis
      BY <1>5, Zenon
    <2> QED  BY <1>1, <1>3, <1>5, <2>1, <2>4, <2>5, <2>6, Queued, Zenon
  <1>10. ASSUME m_synced PROVE tip' \in Ancestors[Best] \/ Leads(Len(queue))'
    <2>1. Best' = Best /\ Best \in Block
      BY <1>1, <1>2, <1>3, <1>10, Zenon DEF Best, ThreadsOK, BlockOrNone
    <2>2. CASE tip \in Ancestors[Best]
      <3>1. CASE c = <<>>
        BY <1>1, <1>5, <2>1, <2>2, <3>1, AncestorsClosed, Zenon
      <3>2. CASE c # <<>>
        <4>1. 1 \in 1..Len(c) /\ Len(queue) + 1 \in 1..Len(queue')
          BY <1>6, <3>2
        <4>2. From(queue'[Len(queue) + 1]) \in Ancestors[Best']
          BY <1>5, <1>6, <2>1, <2>2, <3>2, <4>1, AncestorsClosed, Zenon
        <4> QED  BY <4>1, <4>2, Zenon DEF Leads, From
      <3> QED  BY <3>1, <3>2, Zenon
    <2>3. CASE Leads(Len(queue))
      <3>1. PICK j \in 1..Len(queue) : From(queue[j]) \in Ancestors[Best]
        BY <2>3, Zenon DEF Leads
      <3>2. j \in 1..Len(queue') /\ From(queue'[j]) \in Ancestors[Best']
        BY <1>6, <2>1, <3>1
      <3> QED  BY <3>2, Zenon DEF Leads, From
    <2> QED  BY <1>3, <1>10, <2>2, <2>3, Zenon DEF LeadsOK
  <1>11. reader'.pc = "true" => Kept(reader'.block)
    BY <1>1, <1>3, Zenon DEF KeptOK
  <1> QED
    BY <1>1, <1>4, <1>5, <1>9, <1>10, <1>8, <1>11, WhileQueued, Zenon DEF IInv

\* A flush or a reader puts an item for the tip into the queue.
LEMMA QueuedTip ==
    ASSUME IInv, NEW x \in Item, x.kind # "connected", x.block = tip,
           queue' = Append(queue, x), UNCHANGED <<tip, m_best_block_index, call>>
    PROVE  /\ <<x>> \in Seq(Item) /\ queue' = queue \o <<x>>
           /\ Len(queue) \in Nat /\ Len(queue') = Len(queue) + 1 /\ queue'[Len(queue')] = x
           /\ \A i \in 1..Len(queue) : queue'[i] = queue[i]
           /\ m_synced => Leads(Len(queue))'
           /\ (\A i \in 1..Len(queue') : queue'[i].kind = "sync" =>
                   /\ reader' = [pc |-> "waiting", block |-> queue'[i].block]
                   /\ \A j \in 1..Len(queue') : queue'[j].kind = "sync" => j = i) => QueueOK'
  <1>1. queue \in Seq(Item) /\ QueueOK /\ LeadsOK /\ tip \in Block
    BY Zenon DEF IInv, QueueOK, ThreadsOK
  <1>2. /\ <<x>> \in Seq(Item) /\ queue' = queue \o <<x>>
        /\ Len(queue) \in Nat /\ Len(queue') = Len(queue) + 1 /\ queue'[Len(queue')] = x
        /\ \A i \in 1..Len(queue) : queue'[i] = queue[i]
    BY <1>1
  <1>3. Best' = Best
    BY Zenon DEF Best
  <1>4. ASSUME m_synced PROVE Leads(Len(queue))'
    <2>1. CASE tip \in Ancestors[Best]
      <3>1. Len(queue') \in 1..Len(queue') /\ From(queue'[Len(queue')]) \in Ancestors[Best']
        BY <1>2, <1>3, <2>1 DEF From
      <3> QED  BY <3>1, Zenon DEF Leads, From
    <2>2. CASE Leads(Len(queue))
      <3>1. PICK j \in 1..Len(queue) : From(queue[j]) \in Ancestors[Best]
        BY <2>2, Zenon DEF Leads
      <3>2. j \in 1..Len(queue') /\ From(queue'[j]) \in Ancestors[Best']
        BY <1>2, <1>3, <3>1
      <3> QED  BY <3>2, Zenon DEF Leads, From
    <2> QED  BY <1>1, <1>4, <2>1, <2>2, Zenon DEF LeadsOK
  <1>5. ASSUME \A i \in 1..Len(queue') : queue'[i].kind = "sync" =>
                   /\ reader' = [pc |-> "waiting", block |-> queue'[i].block]
                   /\ \A j \in 1..Len(queue') : queue'[j].kind = "sync" => j = i
        PROVE  QueueOK'
    <2> DEFINE items == <<x>>
    <2>1. /\ Len(items) = 1 /\ items[1] = x /\ items # <<>>
          /\ From(items[1]) \in Ancestors[tip] /\ tip' \in Ancestors[items[Len(items)].block]
      BY <1>1, AncestorsEnds, Zenon DEF From
    <2>2. \A i \in 1..Len(items) : items[i].kind = "connected" => items[i].block # Genesis
      BY <2>1
    <2>3. \A i \in 2..Len(items) : From(items[i]) \in Ancestors[items[i - 1].block]
      BY <2>1
    <2>4. items \in Seq(Item) /\ queue' = queue \o items
      BY <1>2, Zenon
    <2> HIDE DEF items
    <2>5. IF items = <<>> THEN tip' \in Ancestors[tip]
          ELSE From(items[1]) \in Ancestors[tip] /\ tip' \in Ancestors[items[Len(items)].block]
      BY <2>1, Zenon
    <2> QED  BY <1>1, <1>5, <2>2, <2>3, <2>4, <2>5, Queued, Zenon
  <1> QED  BY <1>2, <1>4, <1>5, Zenon

LEMMA FlushChainOK ==
    ASSUME IInv, FlushChain
    PROVE  IInv'
  <1> DEFINE x == [kind |-> "flushed", block |-> tip]
  <1>1. /\ flushed' = tip /\ queue' = Append(queue, x)
        /\ UNCHANGED <<tip, memory, disk, sync, call, reader, halted, restarts>>
    BY Zenon DEF FlushChain
  <1>2. UNCHANGED <<m_synced, m_best_block_index, m_interrupt, db>>
    BY <1>1, Zenon DEF memory, disk
  <1>3. ThreadsOK /\ KeptOK /\ QueueOK /\ tip \in Block
    BY Zenon DEF IInv, ThreadsOK
  <1>4. ThreadsOK'
    BY <1>1, <1>2, <1>3 DEF ThreadsOK
  <1>5. x \in Item /\ x.kind = "flushed" /\ x.block = tip
    BY <1>3, Zenon DEF Item
  <1> HIDE DEF x
  <1>6. /\ <<x>> \in Seq(Item) /\ queue' = queue \o <<x>>
        /\ Len(queue) \in Nat /\ Len(queue') = Len(queue) + 1 /\ queue'[Len(queue')] = x
        /\ \A i \in 1..Len(queue) : queue'[i] = queue[i]
        /\ m_synced => Leads(Len(queue))'
        /\ (\A i \in 1..Len(queue') : queue'[i].kind = "sync" =>
                /\ reader' = [pc |-> "waiting", block |-> queue'[i].block]
                /\ \A j \in 1..Len(queue') : queue'[j].kind = "sync" => j = i) => QueueOK'
    BY <1>1, <1>2, <1>5, QueuedTip, Zenon
  <1>7. ASSUME NEW i \in 1..Len(queue'), queue'[i].kind = "sync"
        PROVE  i \in 1..Len(queue) /\ queue'[i] = queue[i]
    <2>1. i # Len(queue')
      BY <1>5, <1>6, <1>7, Zenon
    <2>2. i \in 1..Len(queue)
      BY <1>6, <2>1
    <2> QED  BY <1>6, <2>2, Zenon
  <1>8. QueueOK'
    <2>1. \A i \in 1..Len(queue') : queue'[i].kind = "sync" =>
                /\ reader' = [pc |-> "waiting", block |-> queue'[i].block]
                /\ \A j \in 1..Len(queue') : queue'[j].kind = "sync" => j = i
      BY <1>1, <1>3, <1>7 DEF QueueOK
    <2> QED  BY <1>6, <2>1, Zenon
  <1>9. ASSUME m_synced PROVE CommitDue'
    <2>1. Len(queue') \in 1..Len(queue') /\ queue'[Len(queue')].kind = "flushed"
      BY <1>5, <1>6
    <2>2. (\E i \in 1..Len(queue) : queue[i].kind = "flushed" /\ Leads(i))'
      BY <1>6, <1>9, <2>1, Zenon
    <2> QED  BY <1>2, <1>9, <2>2, Zenon DEF CommitDue
  <1>10. \A i \in 1..Len(queue') : i > Len(queue) => queue'[i].kind # "sync"
    BY <1>6, <1>7
  <1>11. reader'.pc = "true" => Kept(reader'.block)
    BY <1>1, <1>3, Zenon DEF KeptOK
  <1>12. m_synced => tip' \in Ancestors[Best] \/ Leads(Len(queue))'
    BY <1>6, Zenon
  <1> QED
    BY <1>1, <1>4, <1>6, <1>8, <1>9, <1>10, <1>11, <1>12, WhileQueued, Zenon DEF IInv

\* A caller that is told to wait waits for the callbacks that lead to the tip.
LEMMA BlockUntilSyncedOK ==
    ASSUME IInv, BlockUntilSynced
    PROVE  IInv'
  <1> DEFINE x == [kind |-> "sync", block |-> tip]
  <1>1. /\ UNCHANGED <<tip, flushed, memory, disk, sync, call, halted, restarts>>
        /\ m_synced /\ reader.pc # "waiting"
    BY Zenon DEF BlockUntilSynced
  <1>2. UNCHANGED <<m_synced, m_best_block_index, m_interrupt, db>>
    BY <1>1, Zenon DEF memory, disk
  <1>3. /\ ThreadsOK /\ WrittenOK /\ KeptOK /\ QueueOK /\ LeadsOK /\ tip \in Block /\ tip # NoBlock
        /\ m_best_block_index \in Block
    BY <1>1, AncestryAssumption, Zenon DEF IInv, ThreadsOK, BlockOrNone
  <1>4. Best' = Best
    BY <1>1, <1>2, Zenon DEF Best
  <1>5. \A i \in 1..Len(queue) : queue[i].kind # "sync"
    BY <1>1, <1>3 DEF QueueOK
  <1>6. ThreadsOK' <=> /\ reader' \in [pc : {"none", "waiting", "true"}, block : BlockOrNone]
                       /\ reader'.pc # "none" => reader'.block # NoBlock
    BY <1>1, <1>2, <1>3 DEF ThreadsOK
  <1>7. CASE /\ GetAncestor(m_best_block_index, Height[tip]) = tip
             /\ reader' = [pc |-> "true", block |-> tip] /\ UNCHANGED queue
    <2>1. ThreadsOK'
      BY <1>3, <1>6, <1>7, Zenon DEF BlockOrNone
    <2>2. tip \in Ancestors[m_best_block_index]
      BY <1>3, <1>7, GetAncestorTest, Zenon
    <2>3. tip \in Below(Reached)
      BY <1>1, <1>3, <2>2, BestReached, Zenon
    <2>4. Kept(tip)
      BY <1>3, <2>3, Zenon DEF Kept, WrittenOK
    <2>5. reader'.pc = "true" => Kept(reader'.block)
      BY <1>7, <2>4, Zenon
    <2>6. QueueOK'
      BY <1>1, <1>3, <1>5, <1>7, Zenon DEF QueueOK, From
    <2>7. <<>> \in Seq(Item) /\ queue' = queue \o <<>> /\ Len(queue) \in Nat
      BY <1>3, <1>7 DEF QueueOK
    <2>8. Leads(Len(queue))' <=> Leads(Len(queue))
      BY <1>4, <1>7, Zenon DEF Leads, From
    <2>9. m_synced => tip' \in Ancestors[Best] \/ Leads(Len(queue))'
      BY <1>1, <1>3, <2>8, Zenon DEF LeadsOK
    <2>10. \A i \in 1..Len(queue') : ~ i > Len(queue)
      BY <1>7, <2>7
    <2> QED
      BY <1>1, <2>1, <2>5, <2>6, <2>7, <2>9, <2>10, WhileQueued, Zenon DEF IInv
  <1>8. CASE reader' = [pc |-> "waiting", block |-> tip] /\ queue' = Append(queue, x)
    <2>1. ThreadsOK'
      BY <1>3, <1>6, <1>8, Zenon DEF BlockOrNone
    <2>2. x \in Item /\ x.kind = "sync" /\ x.block = tip
      BY <1>3, Zenon DEF Item
    <2> HIDE DEF x
    <2>3. /\ <<x>> \in Seq(Item) /\ queue' = queue \o <<x>>
          /\ Len(queue) \in Nat /\ Len(queue') = Len(queue) + 1 /\ queue'[Len(queue')] = x
          /\ \A i \in 1..Len(queue) : queue'[i] = queue[i]
          /\ m_synced => Leads(Len(queue))'
          /\ (\A i \in 1..Len(queue') : queue'[i].kind = "sync" =>
                  /\ reader' = [pc |-> "waiting", block |-> queue'[i].block]
                  /\ \A j \in 1..Len(queue') : queue'[j].kind = "sync" => j = i) => QueueOK'
      BY <1>1, <1>2, <1>8, <2>2, QueuedTip, Zenon
    <2>4. \A i \in 1..Len(queue') : queue'[i].kind = "sync" => i = Len(queue')
      BY <1>5, <2>3
    <2>5. QueueOK'
      <3>1. \A i \in 1..Len(queue') : queue'[i].kind = "sync" =>
                  /\ reader' = [pc |-> "waiting", block |-> queue'[i].block]
                  /\ \A j \in 1..Len(queue') : queue'[j].kind = "sync" => j = i
        BY <1>8, <2>2, <2>3, <2>4, Zenon
      <3> QED  BY <2>3, <3>1
    <2>6. \A i \in 1..Len(queue') :
              m_synced /\ i > Len(queue) /\ queue'[i].kind = "sync" => Leads(i)'
      BY <2>3, <2>4, Zenon
    <2>7. m_synced => tip' \in Ancestors[Best] \/ Leads(Len(queue))'
      BY <2>3
    <2>8. reader'.pc # "true"
      BY <1>8, Zenon
    <2> QED
      BY <1>1, <2>1, <2>3, <2>5, <2>6, <2>7, <2>8, WhileQueued, Zenon DEF IInv
  <1> QED  BY <1>7, <1>8, Zenon DEF BlockUntilSynced

-----------------------------------------------------------------------------
(* ThreadSync *)

\* A commit of what has been written.
LEMMA Committing ==
    ASSUME DiskOK, ThreadsOK, WrittenOK, KeptOK, NEW best \in Block, db' = Committed(db, best),
           UNCHANGED <<file, m_next_filter_pos, restarts, reader>>,
           Below(Reached)' = Below(Reached)
    PROVE  /\ DiskOK' /\ WrittenOK' /\ KeptOK' /\ db'.locator = best
           /\ best \in Below(Reached) => AllThere'
  <1>1. /\ db' \in Database /\ db'.height = db.height /\ db'.hash = db.hash
        /\ db'.locator = best /\ db'.pos = m_next_filter_pos
    BY CommittedFields, Zenon DEF DiskOK
  <1>2. DiskOK'
    BY <1>1, SameEntries, Zenon
  <1>3. WrittenOK' /\ KeptOK'
    <2>1. reader'.pc = "true" => Kept(reader'.block)
      BY Zenon DEF KeptOK
    <2> QED  BY <1>1, <2>1, SameReached, Zenon
  <1>4. ASSUME best \in Below(Reached) PROVE AllThere'
    <2>1. Ancestors[best] \subseteq Below(Reached)
      <3>1. Reached # NoBlock /\ best \in Ancestors[Reached]
        BY <1>4, Zenon DEF Below
      <3>2. Reached \in Block
        BY <3>1, AncestryAssumption, Zenon DEF Reached, ThreadsOK, BlockOrNone, Prev
      <3> QED  BY <3>1, <3>2, AncestorsClosed, Zenon DEF Below
    <2>2. \A a \in Ancestors[best] : FilterAt(db.height[Height[a]], a, m_next_filter_pos)
      BY <2>1, Zenon DEF WrittenOK
    <2>3. \A a \in Ancestors[db'.locator] : FilterAt(db.height[Height[a]], a, db.pos)'
      BY <1>1, <2>2, Zenon DEF FilterAt
    <2>4. db'.locator \in Below(Reached)'
      BY <1>1, <1>4, Zenon
    <2> QED  BY <2>3, <2>4, Zenon DEF AllThere
  <1> QED  BY <1>1, <1>2, <1>3, <1>4, Zenon

\* NextSyncBlock goes up from the fork with the active chain, to its tip.
LEMMA NextSyncBlockDef ==
    ASSUME tip \in Block, NEW p \in BlockOrNone
    PROVE  /\ p = NoBlock => NextSyncBlock(p) = Genesis /\ Prev(NextSyncBlock(p)) = p
           /\ p # NoBlock /\ NextSyncBlock(p) # NoBlock =>
                 /\ NextSyncBlock(p) \in Block \ {Genesis}
                 /\ Prev(NextSyncBlock(p)) \in Ancestors[p]
           /\ NextSyncBlock(p) = NoBlock => p \in Block /\ tip \in Ancestors[p]
  <1>1. CASE p = NoBlock
    BY <1>1, AncestryAssumption, Zenon DEF NextSyncBlock, Prev
  <1>2. CASE p # NoBlock
    <2> DEFINE f == LastCommonAncestor(p, tip)
               n == NextSyncBlock(p)
    <2>1. p \in Block /\ f \in Ancestors[p] /\ f \in Ancestors[tip] /\ f \in Block
      BY <1>2, ForkDef, AncestorsEnds, Zenon DEF BlockOrNone
    <2>2. n = GetAncestor(tip, Height[f] + 1)
      BY <1>2, Zenon DEF NextSyncBlock
    <2> HIDE DEF f, n
    <2>3. Height[f] \in Nat /\ Height[tip] \in Nat /\ Height[f] + 1 \in Int
      BY <2>1, HeightDef
    <2>4. CASE Height[f] + 1 \in 0..Height[tip]
      <3>1. n \in Ancestors[tip] /\ Height[n] = Height[f] + 1 /\ n \in Block /\ n # NoBlock
        BY <2>2, <2>3, <2>4, GetAncestorDef, AncestorsEnds, AncestryAssumption, Zenon
      <3>2. n # Genesis
        BY <2>3, <3>1, HeightDef
      <3>3. Parent[n] \in Ancestors[tip] /\ Parent[n] \in Block
        BY <3>1, <3>2, ParentBelow, AncestorsEnds, Zenon
      <3>4. Height[Parent[n]] = Height[f]
        <4>1. Height[n] = 1 + Height[Parent[n]] /\ Height[Parent[n]] \in Nat
          BY <3>1, <3>2, <3>3, HeightDef, Zenon
        <4> QED  BY <2>3, <3>1, <4>1
      <3>5. Prev(n) = f
        BY <2>1, <3>2, <3>3, <3>4, OneAtAHeight, Zenon DEF Prev
      <3> QED  BY <1>2, <2>1, <3>1, <3>2, <3>5, Zenon DEF n
    <2>5. CASE Height[f] + 1 \notin 0..Height[tip]
      <3>1. n = NoBlock
        BY <2>2, <2>3, <2>5, GetAncestorDef, Zenon
      <3>2. ~ Height[f] < Height[tip]
        BY <2>3, <2>5
      <3>3. f = tip
        BY <2>1, <3>2, LowerBelow, Zenon
      <3> QED  BY <1>2, <2>1, <3>1, <3>3, Zenon DEF n
    <2> QED  BY <2>4, <2>5, Zenon
  <1> QED  BY <1>1, <1>2, Zenon

\* What ThreadSync leaves alone.  Until m_synced is set nobody waits for callbacks.
LEMMA WhileSyncing ==
    ASSUME IInv, UNCHANGED <<tip, queue, reader>>, ~m_synced, ~m_synced'
    PROVE  QueueOK' /\ LeadsOK'
  BY Zenon DEF IInv, QueueOK, LeadsOK, From

LEMMA SyncInterruptedOK ==
    ASSUME IInv, SyncInterrupted
    PROVE  IInv'
  <1>1. /\ sync.pc = "loop" /\ m_interrupt /\ m_best_block_index' = sync.pindex
        /\ db' = Committed(db, sync.pindex) /\ sync' = [sync EXCEPT !.pc = "ended"]
        /\ UNCHANGED <<tip, flushed, queue, m_synced, m_next_filter_pos, m_interrupt, file, call,
                       reader, halted, restarts>>
    BY Zenon DEF SyncInterrupted, counts
  <1>2. DiskOK /\ ThreadsOK /\ WrittenOK /\ KeptOK
    BY Zenon DEF IInv
  <1>3. ~m_synced /\ sync.pindex \in Block /\ sync.pindex # NoBlock
    BY <1>1, <1>2, Zenon DEF ThreadsOK, BlockOrNone
  <1>4. sync'.pc = "ended" /\ sync'.pindex = sync.pindex /\ sync'.wrote = sync.wrote
        /\ sync' \in [pc : {"loop", "read", "write", "commit", "ended"}, pindex : BlockOrNone,
                      wrote : BOOLEAN]
    BY <1>1, <1>2, Zenon DEF ThreadsOK
  <1>5. Reached = sync.pindex /\ Reached' = Reached /\ Below(Reached)' = Below(Reached)
    BY <1>1, <1>3, <1>4, Zenon DEF Reached, Below
  <1>6. sync.pindex \in Below(Reached)
    BY <1>3, <1>5, AncestorsEnds, Zenon DEF Below
  <1>7. DiskOK' /\ WrittenOK' /\ KeptOK' /\ db'.locator = sync.pindex /\ AllThere'
    BY <1>1, <1>2, <1>3, <1>5, <1>6, Committing
  <1>8. ThreadsOK'
    BY <1>1, <1>2, <1>3, <1>4, <1>7, Zenon DEF ThreadsOK
  <1>9. QueueOK' /\ LeadsOK'
    BY <1>1, <1>3, WhileSyncing, Zenon
  <1> QED  BY <1>7, <1>8, <1>9, Zenon DEF IInv, LocatorOK

LEMMA SyncDoneOK ==
    ASSUME IInv, SyncDone
    PROVE  IInv'
  <1>1. /\ sync.pc = "loop" /\ NextSyncBlock(sync.pindex) = NoBlock
        /\ m_best_block_index' = sync.pindex /\ m_synced' = TRUE
        /\ sync' = [sync EXCEPT !.pc = "commit"]
        /\ UNCHANGED <<tip, flushed, queue, m_next_filter_pos, m_interrupt, db, file, call,
                       reader, halted, restarts>>
    BY Zenon DEF SyncDone, counts, disk
  <1>2. DiskOK /\ ThreadsOK /\ WrittenOK /\ KeptOK /\ QueueOK /\ tip \in Block
    BY Zenon DEF IInv, ThreadsOK
  <1>3. ~m_synced /\ sync.pindex \in BlockOrNone /\ call.pc = "none" /\ reader.pc = "none"
    BY <1>1, <1>2, Zenon DEF ThreadsOK
  <1>4. sync.pindex \in Block /\ tip \in Ancestors[sync.pindex] /\ sync.pindex # NoBlock
    BY <1>1, <1>2, <1>3, NextSyncBlockDef, AncestryAssumption, Zenon
  <1>5. sync'.pc = "commit" /\ sync'.pindex = sync.pindex /\ sync'.wrote = sync.wrote
        /\ sync' \in [pc : {"loop", "read", "write", "commit", "ended"}, pindex : BlockOrNone,
                      wrote : BOOLEAN]
    BY <1>1, <1>2, Zenon DEF ThreadsOK
  <1>6. Below(Reached)' = Below(Reached)
    BY <1>1, <1>3, <1>5, Zenon DEF Reached, Below
  <1>7. DiskOK'
    BY <1>1, <1>2, Zenon DEF DiskOK
  <1>8. WrittenOK' /\ KeptOK'
    BY <1>1, <1>2, <1>3, <1>6, SameReached, Zenon
  <1>9. ThreadsOK'
    BY <1>1, <1>2, <1>3, <1>4, <1>5, Zenon DEF ThreadsOK
  <1>10. QueueOK'
    BY <1>1, <1>2, Zenon DEF QueueOK, From
  <1>11. LeadsOK'
    <2>1. \A i \in 1..Len(queue) : queue[i].kind # "sync"
      BY <1>2, <1>3 DEF QueueOK
    <2>2. Best' = sync.pindex
      BY <1>1, <1>3, Zenon DEF Best
    <2> QED  BY <1>1, <1>4, <2>1, <2>2, Zenon DEF LeadsOK
  <1> QED  BY <1>5, <1>7, <1>8, <1>9, <1>10, <1>11, Zenon DEF IInv, LocatorOK

LEMMA SyncCommitOK ==
    ASSUME IInv, SyncCommit
    PROVE  IInv'
  <1>1. /\ sync.pc = "commit" /\ db' = Committed(db, m_best_block_index)
        /\ sync' = [sync EXCEPT !.pc = "ended"]
        /\ UNCHANGED <<tip, flushed, queue, m_synced, m_best_block_index, m_next_filter_pos,
                       m_interrupt, file, call, reader, halted, restarts>>
    BY Zenon DEF SyncCommit, counts, memory
  <1>2. DiskOK /\ ThreadsOK /\ WrittenOK /\ KeptOK /\ QueueOK /\ LeadsOK
    BY Zenon DEF IInv
  <1>3. m_synced /\ sync.pindex # NoBlock
    BY <1>1, <1>2, Zenon DEF ThreadsOK
  <1>4. m_best_block_index \in Block /\ m_best_block_index \in Below(Reached)
    BY <1>2, <1>3, BestReached, Zenon
  <1>5. sync'.pc = "ended" /\ sync'.pindex = sync.pindex /\ sync'.wrote = sync.wrote
        /\ sync' \in [pc : {"loop", "read", "write", "commit", "ended"}, pindex : BlockOrNone,
                      wrote : BOOLEAN]
    BY <1>1, <1>2, Zenon DEF ThreadsOK
  <1>6. Below(Reached)' = Below(Reached) /\ Best' = Best
    BY <1>1, <1>3, Zenon DEF Reached, Below, Best
  <1>7. DiskOK' /\ WrittenOK' /\ KeptOK' /\ db'.locator = m_best_block_index /\ AllThere'
    BY <1>1, <1>2, <1>4, <1>6, Committing, Zenon
  <1>8. ThreadsOK'
    BY <1>1, <1>2, <1>3, <1>5, <1>7, Zenon DEF ThreadsOK
  <1>9. QueueOK' /\ LeadsOK'
    BY <1>1, <1>2, <1>6, Zenon DEF QueueOK, From, LeadsOK, Leads
  <1> QED  BY <1>7, <1>8, <1>9, Zenon DEF IInv, LocatorOK

LEMMA SyncNextOK ==
    ASSUME IInv, SyncNext
    PROVE  IInv'
  <1> DEFINE next == NextSyncBlock(sync.pindex)
  <1>1. /\ sync.pc = "loop" /\ next # NoBlock /\ Prev(next) = sync.pindex
        /\ sync' = [sync EXCEPT !.pc = "read", !.pindex = next]
        /\ UNCHANGED <<tip, flushed, queue, m_synced, m_best_block_index, m_next_filter_pos,
                       m_interrupt, db, file, call, reader, halted, restarts>>
    BY Zenon DEF SyncNext, counts, disk, memory
  <1>2. DiskOK /\ ThreadsOK /\ WrittenOK /\ KeptOK /\ tip \in Block
        /\ sync.pindex \in BlockOrNone
    BY Zenon DEF IInv, ThreadsOK
  <1>3. ~m_synced
    BY <1>1, <1>2, Zenon DEF ThreadsOK
  <1>4. next \in Block
    BY <1>1, <1>2, NextSyncBlockDef, AncestryAssumption, Zenon
  <1> HIDE DEF next
  <1>5. sync'.pc = "read" /\ sync'.pindex = next /\ sync'.wrote = sync.wrote
        /\ sync' \in [pc : {"loop", "read", "write", "commit", "ended"}, pindex : BlockOrNone,
                      wrote : BOOLEAN]
    BY <1>1, <1>2, <1>4, Zenon DEF ThreadsOK, BlockOrNone
  <1>6. Below(Reached)' = Below(Reached)
    BY <1>1, <1>3, <1>5, Zenon DEF Reached, Below
  <1>7. DiskOK'
    BY <1>1, <1>2, Zenon DEF DiskOK
  <1>8. WrittenOK' /\ KeptOK'
    <2>1. reader'.pc = "true" => Kept(reader'.block)
      BY <1>1, <1>2, Zenon DEF KeptOK
    <2> QED  BY <1>1, <1>2, <1>6, <2>1, SameReached, Zenon
  <1>9. ThreadsOK'
    BY <1>1, <1>2, <1>3, <1>5, Zenon DEF ThreadsOK
  <1>10. QueueOK' /\ LeadsOK'
    BY <1>1, <1>3, WhileSyncing, Zenon
  <1> QED  BY <1>5, <1>7, <1>8, <1>9, <1>10, Zenon DEF IInv, LocatorOK

LEMMA SyncRewindOK ==
    ASSUME IInv, SyncRewind
    PROVE  IInv'
  <1> DEFINE next == NextSyncBlock(sync.pindex)
             copied == Copied(db, Height[sync.pindex], Height[Prev(next)])
  <1>1. /\ sync.pc = "loop" /\ next # NoBlock /\ Prev(next) # sync.pindex
        /\ \/ /\ m_best_block_index' = Prev(next)
              /\ db' = Committed(copied, Prev(next))
              /\ sync' = [sync EXCEPT !.pc = "read", !.pindex = next]
              /\ UNCHANGED halted
           \/ /\ db' = copied /\ halted' = "assert"
              /\ UNCHANGED <<m_best_block_index, sync>>
        /\ UNCHANGED <<tip, flushed, queue, m_synced, m_next_filter_pos, m_interrupt, file,
                       call, reader, restarts>>
    BY Zenon DEF SyncRewind, counts
  <1>2. DiskOK /\ ThreadsOK /\ WrittenOK /\ KeptOK /\ tip \in Block
        /\ sync.pindex \in BlockOrNone
    BY DEF IInv, ThreadsOK
  <1>3. ~m_synced
    BY <1>1, <1>2, Zenon DEF ThreadsOK
  <1>4. /\ sync.pindex \in Block /\ sync.pindex # NoBlock /\ next \in Block
        /\ Prev(next) \in Ancestors[sync.pindex]
    BY <1>1, <1>2, NextSyncBlockDef, Zenon DEF BlockOrNone
  <1> HIDE DEF next
  <1>5. Prev(next) \in Block /\ Prev(next) # NoBlock /\ Height[Prev(next)] \in Nat
    BY <1>4, AncestorsEnds, AncestryAssumption, HeightDef, Zenon
  <1>6. copied \in Database /\ copied.height = db.height /\ copied.locator = db.locator
        /\ copied.pos = m_next_filter_pos
    BY <1>2, <1>4, <1>5, CopiedFields
  <1> HIDE DEF copied
  <1>7. Reached = sync.pindex
    BY <1>1, <1>3, Zenon DEF Reached
  <1>8. QueueOK' /\ LeadsOK'
    BY <1>1, <1>3, WhileSyncing, Zenon
  <1>9. CASE /\ m_best_block_index' = Prev(next) /\ db' = Committed(copied, Prev(next))
             /\ sync' = [sync EXCEPT !.pc = "read", !.pindex = next] /\ UNCHANGED halted
    <2>1. sync'.pc = "read" /\ sync'.pindex = next /\ sync'.wrote = sync.wrote
          /\ sync' \in [pc : {"loop", "read", "write", "commit", "ended"}, pindex : BlockOrNone,
                        wrote : BOOLEAN]
      BY <1>2, <1>4, <1>9, Zenon DEF ThreadsOK, BlockOrNone
    <2>2. /\ db' \in Database /\ db'.height = db.height /\ db'.hash = copied.hash
          /\ db'.pos = m_next_filter_pos
      BY <1>2, <1>5, <1>6, <1>9, CommittedFields, Zenon DEF DiskOK
    <2>3. Below(Reached)' = Ancestors[Prev(next)]
      BY <1>1, <1>3, <1>5, <2>1, Zenon DEF Reached, Below
    <2>4. DiskOK' /\ WrittenOK' /\ KeptOK'
      BY <1>1, <1>2, <1>4, <1>7, <2>2, <2>3, Rewinding DEF copied
    <2>5. ThreadsOK'
      BY <1>1, <1>2, <1>3, <1>4, <1>5, <1>9, <2>1, AncestryAssumption, Zenon DEF ThreadsOK, BlockOrNone
    <2> QED  BY <1>8, <2>1, <2>4, <2>5, Zenon DEF IInv, LocatorOK
  <1>10. CASE db' = copied /\ halted' = "assert" /\ UNCHANGED <<m_best_block_index, sync>>
    <2>1. Below(Reached)' = Ancestors[sync.pindex]
      BY <1>1, <1>3, <1>4, <1>10, Zenon DEF Reached, Below
    <2>2. /\ db' \in Database /\ db'.height = db.height /\ db'.hash = copied.hash
          /\ db'.pos = m_next_filter_pos
      BY <1>6, <1>10, Zenon
    <2>3. DiskOK' /\ WrittenOK' /\ KeptOK'
      BY <1>1, <1>2, <1>4, <1>7, <2>1, <2>2, Rewinding, Zenon DEF copied
    <2>4. ThreadsOK'
      BY <1>1, <1>2, <1>3, <1>6, <1>10, Zenon DEF ThreadsOK
    <2> QED  BY <1>1, <1>8, <1>10, <2>3, <2>4, Zenon DEF IInv, LocatorOK
  <1> QED  BY <1>1, <1>9, <1>10, Zenon

LEMMA SyncWriteLocatorOK ==
    ASSUME IInv, SyncWriteLocator
    PROVE  IInv'
  <1>1. /\ sync.pc = "read" /\ m_best_block_index' = sync.pindex
        /\ db' = Committed(db, sync.pindex)
        /\ sync' = [sync EXCEPT !.pc = "write", !.wrote = TRUE]
        /\ UNCHANGED <<tip, flushed, queue, m_synced, m_next_filter_pos, m_interrupt, file, call,
                       reader, halted, restarts>>
    BY Zenon DEF SyncWriteLocator, counts
  <1>2. DiskOK /\ ThreadsOK /\ WrittenOK /\ KeptOK
    BY DEF IInv
  <1>3. ~m_synced /\ sync.pindex \in Block /\ sync.pindex # NoBlock
    BY <1>1, <1>2, Zenon DEF ThreadsOK, BlockOrNone
  <1>4. sync'.pc = "write" /\ sync'.pindex = sync.pindex
        /\ sync' \in [pc : {"loop", "read", "write", "commit", "ended"}, pindex : BlockOrNone,
                      wrote : BOOLEAN]
    BY <1>1, <1>2, Zenon DEF ThreadsOK
  <1>5. Below(Reached)' = Below(Reached)
    BY <1>1, <1>3, <1>4, Zenon DEF Reached, Below
  <1>6. DiskOK' /\ WrittenOK' /\ KeptOK'
    BY <1>1, <1>2, <1>3, <1>5, Committing, Zenon
  <1>7. ThreadsOK'
    BY <1>1, <1>2, <1>3, <1>4, Zenon DEF ThreadsOK
  <1>8. QueueOK' /\ LeadsOK'
    BY <1>1, <1>3, WhileSyncing, Zenon
  <1> QED  BY <1>4, <1>6, <1>7, <1>8, Zenon DEF IInv, LocatorOK

\* WriteBlock finds the entry of the block before.
LEMMA MayWriteReached ==
    ASSUME WrittenOK, NEW b \in Block, Prev(b) = Reached
    PROVE  MayWrite(b)
  <1> SUFFICES ASSUME b # Genesis PROVE db.height[Height[b] - 1].block = Parent[b]
    BY Zenon DEF MayWrite
  <1>1. Parent[b] \in Block /\ Parent[b] # NoBlock /\ Reached = Parent[b]
    BY AncestryAssumption, Zenon DEF Prev
  <1>2. Parent[b] \in Below(Reached)
    BY <1>1, AncestorsEnds, Zenon DEF Below
  <1>3. db.height[Height[Parent[b]]].block = Parent[b]
    BY <1>2, Zenon DEF WrittenOK, FilterAt
  <1>4. Height[b] - 1 = Height[Parent[b]]
    <2>1. Height[b] = 1 + Height[Parent[b]] /\ Height[Parent[b]] \in Nat
      BY <1>1, HeightDef, Zenon
    <2> QED  BY <2>1
  <1> QED  BY <1>3, <1>4, Zenon

LEMMA SyncWriteBlockOK ==
    ASSUME IInv, SyncWriteBlock
    PROVE  IInv'
  <1>1. sync.pc \in {"read", "write"}
        /\ UNCHANGED <<tip, flushed, queue, m_synced, m_best_block_index, m_interrupt, call,
                       reader, restarts>>
    BY Zenon DEF SyncWriteBlock, counts
  <1>2. DiskOK /\ ThreadsOK /\ WrittenOK /\ KeptOK
    BY DEF IInv
  <1>3. ~m_synced /\ sync.pindex \in Block /\ Prev(sync.pindex) = Reached
    BY <1>1, <1>2, Zenon DEF ThreadsOK, BlockOrNone, Reached
  <1>4. WriteBlock(sync.pindex) /\ sync' = [sync EXCEPT !.pc = "loop"] /\ UNCHANGED halted
    BY <1>2, <1>3, MayWriteReached, Zenon DEF SyncWriteBlock
  <1>5. sync'.pc = "loop" /\ sync'.pindex = sync.pindex
        /\ sync' \in [pc : {"loop", "read", "write", "commit", "ended"}, pindex : BlockOrNone,
                      wrote : BOOLEAN]
    BY <1>2, <1>4, Zenon DEF ThreadsOK
  <1>6. Reached' = sync.pindex
    BY <1>1, <1>3, <1>5, Zenon DEF Reached
  <1>7. DiskOK' /\ WrittenOK' /\ KeptOK'
    BY <1>1, <1>2, <1>3, <1>4, <1>6, Writing, Zenon
  <1>8. ThreadsOK'
    BY <1>1, <1>2, <1>3, <1>4, <1>5, AncestryAssumption DEF ThreadsOK
  <1>9. QueueOK' /\ LeadsOK'
    BY <1>1, <1>3, WhileSyncing, Zenon
  <1> QED  BY <1>5, <1>7, <1>8, <1>9, Zenon DEF IInv, LocatorOK

-----------------------------------------------------------------------------
(* The callbacks *)

\* The scheduler takes an item, and the database is not touched.
LEMMA Taking ==
    ASSUME IInv, m_synced, call.pc = "none", queue # <<>>, queue' = Tail(queue),
           UNCHANGED <<tip, flushed, m_synced, m_best_block_index, m_next_filter_pos, db, file,
                       sync, restarts>>,
           queue[1].kind # "sync" => UNCHANGED reader,
           reader'.pc = "true" => Kept(reader'.block),
           call'.pc \in {"none", "write", "commit"}, Best' \in Block,
           IF From(queue[1]) \in Ancestors[m_best_block_index]
           THEN queue[1].block \in Ancestors[Best'] ELSE Best' = m_best_block_index,
           call'.pc # "commit" /\ queue[1].kind = "flushed" =>
               queue[1].block \notin Ancestors[m_best_block_index]
    PROVE  DiskOK' /\ WrittenOK' /\ KeptOK' /\ QueueOK' /\ LeadsOK' /\ LocatorOK'
  <1>1. DiskOK /\ ThreadsOK /\ WrittenOK /\ KeptOK /\ QueueOK /\ LeadsOK /\ LocatorOK
    BY Zenon DEF IInv
  <1>2. Best = m_best_block_index /\ Best \in Block
    BY <1>1, Zenon DEF Best, ThreadsOK, BlockOrNone
  <1>3. Below(Reached)' = Below(Reached)
    BY Zenon DEF Reached, Below
  <1>4. DiskOK'
    BY <1>1, Zenon DEF DiskOK
  <1>5. WrittenOK' /\ KeptOK'
    BY <1>1, <1>3, SameReached, Zenon
  <1>6. QueueOK'
    BY <1>1, Taken, Zenon
  <1>7. LeadsOK' /\ \A i \in 2..Len(queue) : Leads(i) => Leads(i - 1)'
    BY <1>1, <1>2, TakenLeads, Zenon
  <1>8. LocatorOK'
    <2> SUFFICES ASSUME sync.pc = "ended", call'.pc # "commit"
                 PROVE  AllThere' \/ FlushedThere' \/ CommitDue'
      BY Zenon DEF LocatorOK
    <2>1. AllThere => AllThere'
      BY <1>3, Zenon DEF AllThere, FilterAt
    <2>2. FlushedThere => FlushedThere'
      BY Zenon DEF FlushedThere, FilterAt
    <2>3. ASSUME CommitDue PROVE CommitDue'
      <3>1. PICK i \in 1..Len(queue) : queue[i].kind = "flushed" /\ Leads(i)
        BY <2>3, Zenon DEF CommitDue
      <3>2. i # 1
        <4> SUFFICES ASSUME i = 1 PROVE FALSE
          BY Zenon
        <4>1. \E j \in 1..1 : From(queue[j]) \in Ancestors[Best]
          BY <3>1, Zenon DEF Leads
        <4>2. queue[1].block \in Ancestors[Best]
          BY <3>1, <4>1 DEF From
        <4> QED  BY <1>2, <3>1, <4>2, Zenon
      <3>3. Len(queue) \in Nat /\ i \in 2..Len(queue) /\ i - 1 \in 1..Len(queue')
            /\ queue'[i - 1] = queue[i]
        BY <1>1, <3>1, <3>2 DEF QueueOK
      <3>4. (\E j \in 1..Len(queue) : queue[j].kind = "flushed" /\ Leads(j))'
        BY <1>7, <3>1, <3>3, Zenon
      <3> QED  BY <3>4, Zenon DEF CommitDue
    <2> QED  BY <1>1, <2>1, <2>2, <2>3, Zenon DEF LocatorOK
  <1> QED  BY <1>4, <1>5, <1>6, <1>7, <1>8, Zenon

\* BlockConnected compares with the chain of the best block.
LEMMA ConnectsDef ==
    ASSUME m_best_block_index \in Block, NEW b \in Block \ {Genesis}
    PROVE  Connects(b) <=> Parent[b] \in Ancestors[m_best_block_index]
  <1>1. Parent[b] \in Block /\ Height[b] = 1 + Height[Parent[b]] /\ Height[Parent[b]] \in Nat
    BY AncestryAssumption, HeightDef, Zenon
  <1>2. Height[b] - 1 = Height[Parent[b]] /\ Prev(b) = Parent[b]
    BY <1>1 DEF Prev
  <1> QED  BY <1>1, <1>2, GetAncestorTest, Zenon DEF Connects

LEMMA BeginCallbackOK ==
    ASSUME IInv, BeginCallback
    PROVE  IInv'
  <1> DEFINE x == queue[1]
  <1>1. /\ call.pc = "none" /\ queue # <<>> /\ queue' = Tail(queue)
        /\ \/ x.kind = "connected" /\ BlockConnected(x.block) /\ UNCHANGED reader
           \/ x.kind = "flushed" /\ ChainStateFlushed(x.block) /\ UNCHANGED reader
           \/ /\ x.kind = "sync" /\ reader' = [reader EXCEPT !.pc = "true"]
              /\ UNCHANGED <<call, m_best_block_index, db>>
        /\ UNCHANGED <<tip, flushed, m_synced, m_next_filter_pos, m_interrupt, file, sync, halted,
                       restarts>>
    BY DEF BeginCallback, counts, IInv, QueueOK
  <1>2. DiskOK /\ ThreadsOK /\ WrittenOK /\ KeptOK /\ QueueOK /\ LeadsOK /\ LocatorOK
        /\ m_synced \in BOOLEAN
    BY Zenon DEF IInv, ThreadsOK
  <1>3. /\ Len(queue) \in Nat /\ 1 \in 1..Len(queue) /\ x \in Item /\ x.block \in Block
        /\ (x.kind = "connected" => x.block # Genesis)
        /\ (x.kind = "sync" => reader = [pc |-> "waiting", block |-> x.block])
    BY <1>1, <1>2, ItemBlocks DEF QueueOK
  <1>4. reader.pc = "true" => Kept(reader.block)
    BY <1>2, Zenon DEF KeptOK
  <1>5. CASE ~m_synced
    <2>1. x.kind # "sync"
      BY <1>2, <1>3, <1>5 DEF ThreadsOK
    <2>2. UNCHANGED <<call, m_best_block_index, db, reader>>
      BY <1>1, <1>5, <2>1, Zenon DEF BlockConnected, ChainStateFlushed
    <2>3. Below(Reached)' = Below(Reached)
      BY <1>1, <2>2, Zenon DEF Reached, Below
    <2>4. DiskOK'
      BY <1>1, <1>2, <2>2, Zenon DEF DiskOK
    <2>5. WrittenOK' /\ KeptOK'
      BY <1>1, <1>2, <1>4, <2>2, <2>3, SameReached, Zenon
    <2>6. ThreadsOK'
      BY <1>1, <1>2, <2>2 DEF ThreadsOK
    <2>7. QueueOK' /\ LeadsOK'
      BY <1>1, <1>2, <1>5, <2>2, Taken, Zenon DEF LeadsOK
    <2>8. AllThere => AllThere'
      BY <1>1, <2>2, <2>3, Zenon DEF AllThere, FilterAt
    <2>9. LocatorOK'
      BY <1>1, <1>2, <1>5, <2>2, <2>8, Zenon DEF LocatorOK, FlushedThere, CommitDue
    <2> QED  BY <2>4, <2>5, <2>6, <2>7, <2>9, Zenon DEF IInv
  <1>6. CASE m_synced
    <2>1. m_best_block_index \in Block /\ Best = m_best_block_index /\ Reached = m_best_block_index
      BY <1>1, <1>2, <1>6, Zenon DEF Best, ThreadsOK, BlockOrNone, Reached
    <2>2. CASE x.kind = "connected" /\ BlockConnected(x.block) /\ UNCHANGED reader
      <3> DEFINE b == x.block
      <3>1. b \in Block \ {Genesis} /\ From(x) = Parent[b] /\ Prev(b) = Parent[b]
            /\ Parent[b] \in Block /\ b # NoBlock
        BY <1>3, <2>2, AncestryAssumption, Zenon DEF From, Prev
      <3> HIDE DEF x
      <3>2. Connects(b) <=> Parent[b] \in Ancestors[m_best_block_index]
        BY <2>1, <3>1, ConnectsDef, Zenon
      <3>3. CASE ~Connects(b) /\ UNCHANGED <<call, m_best_block_index, db>>
        <4>1. Best' = m_best_block_index
          BY <1>1, <3>3 DEF Best
        <4>2. ThreadsOK'
          BY <1>1, <1>2, <2>2, <3>3 DEF ThreadsOK
        <4>3. DiskOK' /\ WrittenOK' /\ KeptOK' /\ QueueOK' /\ LeadsOK' /\ LocatorOK'
          BY <1>1, <1>4, <1>6, <2>1, <2>2, <3>1, <3>2, <3>3, <4>1, Taking, Zenon DEF x
        <4> QED  BY <4>2, <4>3, Zenon DEF IInv
      <3>4. CASE /\ Connects(b) /\ m_best_block_index = Prev(b)
                 /\ call' = [pc |-> "write", block |-> b] /\ UNCHANGED <<m_best_block_index, db>>
        <4>1. Best' = b /\ call'.pc = "write" /\ b \in Ancestors[b]
          BY <3>1, <3>4, AncestorsEnds DEF Best
        <4>2. ThreadsOK'
          BY <1>1, <1>2, <1>6, <2>2, <3>1, <3>4 DEF ThreadsOK, BlockOrNone
        <4>3. DiskOK' /\ WrittenOK' /\ KeptOK' /\ QueueOK' /\ LeadsOK' /\ LocatorOK'
          BY <1>1, <1>4, <1>6, <2>1, <2>2, <3>1, <3>2, <3>4, <4>1, Taking, Zenon DEF x
        <4> QED  BY <4>2, <4>3 DEF IInv
      <3>5. CASE /\ Connects(b) /\ m_best_block_index' = Prev(b)
                 /\ db' = Copied(db, Height[m_best_block_index], Height[Prev(b)])
                 /\ call' = [pc |-> "rewind", block |-> b]
        <4>1. Best' = b /\ call'.pc = "rewind" /\ call'.block = b /\ b \in Ancestors[b]
          BY <3>1, <3>5, AncestorsEnds, Zenon DEF Best
        <4>2. Prev(b) \in Ancestors[m_best_block_index] /\ Prev(b) # NoBlock
              /\ Height[Prev(b)] \in Nat
          BY <3>1, <3>2, <3>5, AncestryAssumption, HeightDef, Zenon
        <4>3. Below(Reached)' = Ancestors[Prev(b)]
          BY <1>1, <1>6, <3>5, <4>1, <4>2, Zenon DEF Reached, Below
        <4>4. db' \in Database /\ db'.height = db.height /\ db'.locator = db.locator
              /\ db'.pos = m_next_filter_pos
          BY <1>2, <2>1, <3>5, <4>2, CopiedFields
        <4>5. DiskOK' /\ WrittenOK' /\ KeptOK'
          BY <1>1, <1>2, <2>1, <2>2, <3>5, <4>2, <4>3, <4>4, Rewinding, Zenon
        <4>6. ThreadsOK'
          BY <1>1, <1>2, <1>6, <2>2, <3>1, <3>5, <4>1, <4>2, <4>4, Zenon DEF ThreadsOK, BlockOrNone
        <4>7. QueueOK'
          BY <1>1, <1>2, <2>2, Taken, Zenon
        <4>8. LeadsOK'
          BY <1>1, <1>2, <1>6, <2>1, <3>1, <3>2, <3>5, <4>1, TakenLeads, Zenon DEF x
        <4> QED  BY <4>1, <4>5, <4>6, <4>7, <4>8, Zenon DEF IInv, LocatorOK
      <3> QED  BY <1>6, <2>2, <3>3, <3>4, <3>5, Zenon DEF BlockConnected
    <2>3. CASE x.kind = "flushed" /\ ChainStateFlushed(x.block) /\ UNCHANGED reader
      <3>1. From(x) = x.block
        BY <2>3, Zenon DEF From
      <3> HIDE DEF x
      <3>2. /\ UNCHANGED <<m_best_block_index, db>>
            /\ call' = IF x.block \in Ancestors[m_best_block_index]
                       THEN [pc |-> "commit", block |-> x.block] ELSE call
        BY <1>3, <1>6, <2>1, <2>3, GetAncestorTest, Zenon DEF ChainStateFlushed
      <3>3. /\ call' \in [pc : {"none", "rewind", "write", "written", "commit"},
                          block : BlockOrNone]
            /\ call'.pc \in {"none", "commit"}
            /\ call'.pc # "commit" => x.block \notin Ancestors[m_best_block_index]
        BY <1>1, <1>2, <1>3, <3>2, Zenon DEF ThreadsOK, BlockOrNone
      <3>4. Best' = m_best_block_index
        BY <3>2, <3>3, Zenon DEF Best
      <3>5. ThreadsOK'
        BY <1>1, <1>2, <1>6, <2>3, <3>2, <3>3, Zenon DEF ThreadsOK
      <3>6. DiskOK' /\ WrittenOK' /\ KeptOK' /\ QueueOK' /\ LeadsOK' /\ LocatorOK'
        BY <1>1, <1>4, <1>6, <2>1, <2>3, <3>1, <3>2, <3>3, <3>4, Taking, Zenon DEF x
      <3> QED  BY <3>5, <3>6 DEF IInv
    <2>4. CASE /\ x.kind = "sync" /\ reader' = [reader EXCEPT !.pc = "true"]
               /\ UNCHANGED <<call, m_best_block_index, db>>
      <3>1. From(x) = x.block
        BY <2>4, Zenon DEF From
      <3>2. x.block \in Ancestors[m_best_block_index]
        <4>1. Leads(1)
          BY <1>2, <1>3, <1>6, <2>4, Zenon DEF LeadsOK
        <4>2. \E j \in 1..1 : From(queue[j]) \in Ancestors[Best]
          BY <4>1, Zenon DEF Leads
        <4> QED  BY <2>1, <3>1, <4>2
      <3> HIDE DEF x
      <3>3. /\ reader' \in [pc : {"none", "waiting", "true"}, block : BlockOrNone]
            /\ reader'.pc = "true" /\ reader'.block = x.block /\ x.block # NoBlock
        BY <1>2, <1>3, <2>4, AncestryAssumption DEF ThreadsOK
      <3>4. Kept(x.block)
        BY <1>2, <2>1, <3>2, AncestryAssumption, Zenon DEF Kept, WrittenOK, Below
      <3>5. Best' = m_best_block_index
        BY <1>1, <2>4, Zenon DEF Best
      <3>6. ThreadsOK'
        BY <1>1, <1>2, <1>6, <2>4, <3>3, Zenon DEF ThreadsOK
      <3>7. DiskOK' /\ WrittenOK' /\ KeptOK' /\ QueueOK' /\ LeadsOK' /\ LocatorOK'
        BY <1>1, <1>6, <2>1, <2>4, <3>1, <3>2, <3>3, <3>4, <3>5, Taking, Zenon DEF x
      <3> QED  BY <3>6, <3>7 DEF IInv
    <2> QED  BY <1>1, <2>2, <2>3, <2>4
  <1> QED  BY <1>2, <1>5, <1>6, Zenon

LEMMA CallbackCommitOK ==
    ASSUME IInv, CallbackCommit
    PROVE  IInv'
  <1>1. /\ call.pc \in {"rewind", "commit"} /\ db' = Committed(db, m_best_block_index)
        /\ call' = [call EXCEPT !.pc = IF call.pc = "rewind" THEN "write" ELSE "none"]
        /\ UNCHANGED <<tip, flushed, queue, m_synced, m_best_block_index, m_next_filter_pos,
                       m_interrupt, file, sync, reader, halted, restarts>>
    BY Zenon DEF CallbackCommit, memory, counts
  <1>2. DiskOK /\ ThreadsOK /\ WrittenOK /\ KeptOK /\ QueueOK /\ LeadsOK
    BY DEF IInv
  <1>3. m_synced
    BY <1>1, <1>2, Zenon DEF ThreadsOK
  <1>4. m_best_block_index \in Block /\ m_best_block_index \in Below(Reached)
    BY <1>2, <1>3, BestReached, Zenon
  <1>5. /\ call' \in [pc : {"none", "rewind", "write", "written", "commit"}, block : BlockOrNone]
        /\ call'.block = call.block
        /\ call'.pc = IF call.pc = "rewind" THEN "write" ELSE "none"
    BY <1>1, <1>2, Zenon DEF ThreadsOK
  <1>6. Below(Reached)' = Below(Reached) /\ Best' = Best
    BY <1>1, <1>5, Zenon DEF Reached, Below, Best
  <1>7. DiskOK' /\ WrittenOK' /\ KeptOK' /\ db'.locator = m_best_block_index /\ AllThere'
    BY <1>1, <1>2, <1>4, <1>6, Committing, Zenon
  <1>8. ThreadsOK'
    BY <1>1, <1>2, <1>3, <1>4, <1>5, <1>7, AncestryAssumption DEF ThreadsOK
  <1>9. QueueOK' /\ LeadsOK'
    BY <1>1, <1>2, <1>6, Zenon DEF QueueOK, From, LeadsOK, Leads
  <1> QED  BY <1>7, <1>8, <1>9 DEF IInv, LocatorOK

LEMMA CallbackWriteBlockOK ==
    ASSUME IInv, CallbackWriteBlock
    PROVE  IInv'
  <1> DEFINE b == call.block
  <1>1. call.pc = "write"
        /\ UNCHANGED <<tip, flushed, queue, m_synced, m_best_block_index, m_interrupt, sync,
                       reader, restarts>>
    BY Zenon DEF CallbackWriteBlock, counts
  <1>2. DiskOK /\ ThreadsOK /\ WrittenOK /\ KeptOK /\ QueueOK /\ LeadsOK /\ LocatorOK
    BY Zenon DEF IInv
  <1>3. m_synced
    BY <1>1, <1>2, Zenon DEF ThreadsOK
  <1>4. /\ b \in Block \ {Genesis} /\ b # NoBlock /\ Parent[b] = m_best_block_index
        /\ m_best_block_index \in Block /\ m_best_block_index # NoBlock
        /\ Prev(b) = m_best_block_index /\ Reached = m_best_block_index
    BY <1>1, <1>2, <1>3, AncestryAssumption DEF ThreadsOK, Prev, Reached
  <1>5. WriteBlock(b) /\ call' = [call EXCEPT !.pc = "written"] /\ UNCHANGED halted
    BY <1>2, <1>4, MayWriteReached, Zenon DEF CallbackWriteBlock
  <1>6. /\ call' \in [pc : {"none", "rewind", "write", "written", "commit"}, block : BlockOrNone]
        /\ call'.block = b /\ call'.pc = "written"
    BY <1>2, <1>5, Zenon DEF ThreadsOK
  <1> HIDE DEF b
  <1>7. Reached' = b
    BY <1>1, <1>3, <1>6, Zenon DEF Reached
  <1>8. /\ DiskOK' /\ WrittenOK' /\ KeptOK' /\ db'.locator = db.locator /\ db'.pos = db.pos
        /\ \A a \in Below(Prev(b)) : \A k \in Nat :
               k <= m_next_filter_pos /\ FilterAt(db.height[Height[a]], a, k)
                   => FilterAt(db.height[Height[a]], a, k)'
    BY <1>1, <1>2, <1>4, <1>5, <1>7, Writing, Zenon
  <1>9. ThreadsOK'
    BY <1>1, <1>2, <1>3, <1>4, <1>5, <1>6, <1>8, Zenon DEF ThreadsOK
  <1>10. Best' = Best
    BY <1>1, <1>6, Zenon DEF Best, b
  <1>11. QueueOK' /\ LeadsOK'
    BY <1>1, <1>2, <1>10, Zenon DEF QueueOK, From, LeadsOK, Leads
  <1>12. \A a \in Ancestors[m_best_block_index] :
             FilterAt(db.height[Height[a]], a, db.pos) => FilterAt(db.height[Height[a]], a, db.pos)'
    <2>1. db.pos \in Nat /\ db.pos <= m_next_filter_pos
      BY <1>2, Zenon DEF DiskOK, Database
    <2> QED  BY <1>4, <1>8, <2>1, Zenon DEF Below, FilterAt
  <1>13. AllThere => AllThere'
    <2> SUFFICES ASSUME AllThere PROVE AllThere'
      BY Zenon
    <2>1. db.locator \in Ancestors[m_best_block_index]
      BY <1>4, Zenon DEF AllThere, Below
    <2>2. Ancestors[db.locator] \subseteq Ancestors[m_best_block_index]
      BY <1>4, <2>1, AncestorsClosed, Zenon
    <2>3. db.locator \in Below(Reached)'
      BY <1>4, <1>7, <2>1, AncestorsDef, Zenon DEF Below
    <2> QED  BY <1>8, <1>12, <2>2, <2>3, Zenon DEF AllThere
  <1>14. FlushedThere => FlushedThere'
    <2> SUFFICES ASSUME FlushedThere PROVE FlushedThere'
      OBVIOUS
    <2>1. Ancestors[flushed] \subseteq Ancestors[m_best_block_index]
      BY <1>4, AncestorsClosed, Zenon DEF FlushedThere
    <2> QED  BY <1>1, <1>8, <1>12, <2>1, Zenon DEF FlushedThere
  <1>15. CommitDue => CommitDue'
    BY <1>1, <1>10, Zenon DEF CommitDue, Leads, From
  <1>16. LocatorOK'
    BY <1>1, <1>2, <1>13, <1>14, <1>15, Zenon DEF LocatorOK
  <1> QED  BY <1>8, <1>9, <1>11, <1>16, Zenon DEF IInv

LEMMA CallbackSetBestOK ==
    ASSUME IInv, CallbackSetBest
    PROVE  IInv'
  <1>1. /\ call.pc = "written" /\ m_best_block_index' = call.block
        /\ call' = [call EXCEPT !.pc = "none"]
        /\ UNCHANGED <<tip, flushed, queue, m_synced, m_next_filter_pos, m_interrupt, db, file,
                       sync, reader, halted, restarts>>
    BY Zenon DEF CallbackSetBest, counts, disk
  <1>2. DiskOK /\ ThreadsOK /\ WrittenOK /\ KeptOK /\ QueueOK /\ LeadsOK /\ LocatorOK
    BY DEF IInv
  <1>3. m_synced
    BY <1>1, <1>2, Zenon DEF ThreadsOK
  <1>4. /\ call.block \in Block \ {Genesis} /\ call.block # NoBlock
        /\ Parent[call.block] = m_best_block_index
    BY <1>1, <1>2, AncestryAssumption, Zenon DEF ThreadsOK
  <1>5. /\ call' \in [pc : {"none", "rewind", "write", "written", "commit"}, block : BlockOrNone]
        /\ call'.pc = "none"
    BY <1>1, <1>2, Zenon DEF ThreadsOK
  <1>6. Below(Reached)' = Below(Reached) /\ Best' = Best
    BY <1>1, <1>3, <1>5, Zenon DEF Reached, Below, Best
  <1>7. DiskOK'
    BY <1>1, <1>2, Zenon DEF DiskOK
  <1>8. WrittenOK' /\ KeptOK'
    <2>1. reader'.pc = "true" => Kept(reader'.block)
      BY <1>1, <1>2, Zenon DEF KeptOK
    <2> QED  BY <1>1, <1>2, <1>6, <2>1, SameReached, Zenon
  <1>9. ThreadsOK'
    BY <1>1, <1>2, <1>3, <1>4, <1>5, Zenon DEF ThreadsOK, BlockOrNone
  <1>10. QueueOK' /\ LeadsOK'
    BY <1>1, <1>2, <1>6, Zenon DEF QueueOK, From, LeadsOK, Leads
  <1>11. AllThere => AllThere'
    BY <1>1, <1>6, Zenon DEF AllThere, FilterAt
  <1>12. FlushedThere => FlushedThere'
    <2>1. Ancestors[m_best_block_index] \subseteq Ancestors[call.block]
      BY <1>4, AncestorsDef, Zenon
    <2> QED  BY <1>1, <2>1, Zenon DEF FlushedThere, FilterAt
  <1>13. CommitDue => CommitDue'
    BY <1>1, <1>6, Zenon DEF CommitDue, Leads, From
  <1>14. LocatorOK'
    BY <1>1, <1>2, <1>11, <1>12, <1>13, Zenon DEF LocatorOK
  <1> QED  BY <1>7, <1>8, <1>9, <1>10, <1>14 DEF IInv

-----------------------------------------------------------------------------
(* Stopping and starting *)

\* Nothing but the bookkeeping of the model or m_interrupt changes.
LEMMA NothingDone ==
    ASSUME IInv,
           UNCHANGED <<tip, flushed, queue, m_synced, m_best_block_index, m_next_filter_pos, db,
                       file, sync, call, reader, halted, restarts>>,
           m_interrupt' = m_interrupt \/ (m_interrupt' = TRUE /\ sync.pindex # NoBlock)
    PROVE  IInv'
  <1>1. DiskOK /\ ThreadsOK /\ WrittenOK /\ KeptOK /\ QueueOK /\ LeadsOK /\ LocatorOK
    BY Zenon DEF IInv
  <1>2. DiskOK'
    BY <1>1, Zenon DEF DiskOK
  <1>3. ThreadsOK'
    <2>1. m_interrupt \in BOOLEAN /\ (m_interrupt => sync.pindex # NoBlock)
      BY <1>1, Zenon DEF ThreadsOK
    <2>2. m_interrupt' \in BOOLEAN /\ (m_interrupt' => sync.pindex # NoBlock)
      <3>1. CASE m_interrupt' = m_interrupt
        BY <2>1, <3>1, Zenon
      <3>2. CASE m_interrupt' = TRUE /\ sync.pindex # NoBlock
        BY <3>2, Zenon
      <3> QED  BY <3>1, <3>2, Zenon
    <2> QED  BY <1>1, <2>2, Zenon DEF ThreadsOK
  <1>4. WrittenOK' /\ KeptOK'
    <2>1. WrittenOK'
      BY <1>1, Zenon DEF WrittenOK, FilterAt, Below, Reached
    <2>2. KeptOK'
      BY <1>1, ZenonT(30) DEF KeptOK, Kept, FilterAt, Below, Reached
    <2> QED  BY <2>1, <2>2
  <1>5. QueueOK' /\ LeadsOK'
    BY <1>1, Zenon DEF QueueOK, From, LeadsOK, Leads, Best
  <1>6. LocatorOK'
    BY <1>1, Zenon DEF LocatorOK, AllThere, FlushedThere, CommitDue, FilterAt, Below, Reached, Leads,
                From, Best
  <1> QED  BY <1>2, <1>3, <1>4, <1>5, <1>6, Zenon DEF IInv

LEMMA InterruptOK ==
    ASSUME IInv, OrderlyStops, Interrupt
    PROVE  IInv'
  <1>1. /\ sync.pindex # NoBlock /\ m_interrupt' = TRUE
        /\ UNCHANGED <<tip, flushed, queue, m_synced, m_best_block_index, m_next_filter_pos, db,
                       file, sync, call, reader, halted, restarts>>
    BY Zenon DEF Interrupt, OrderlyStops, disk, counts
  <1> QED  BY <1>1, NothingDone, Zenon

\* Init goes back to the fork of the locator with the flushed chain, up to which the
\* database is complete.
LEMMA RestartOK ==
    ASSUME IInv, OrderlyStops, Restart
    PROVE  IInv'
  <1> DEFINE best == LastCommonAncestor(db.locator, flushed)
  <1>1. DiskOK /\ ThreadsOK /\ LocatorOK
    BY Zenon DEF IInv
  <1>2. queue = <<>> /\ call.pc = "none" /\ sync.pc = "ended"
    BY Zenon DEF Restart, MayStop, OrderlyStops
  <1>3. db.locator \in Block /\ db.locator # NoBlock /\ flushed \in Block
    BY <1>1, <1>2, Zenon DEF ThreadsOK, DiskOK, Database, BlockOrNone
  <1>4. best \in Block /\ Ancestors[best] = Ancestors[db.locator] \cap Ancestors[flushed]
        /\ best # NoBlock /\ best \in Ancestors[best]
    BY <1>3, ForkDef, AncestorsEnds, AncestryAssumption, Zenon
  <1>5. /\ tip' = flushed /\ queue' = <<>> /\ halted' = "no" /\ m_interrupt' = FALSE
        /\ m_next_filter_pos' = db.pos /\ restarts' = restarts + 1
        /\ m_best_block_index' = best /\ m_synced' = (best = flushed)
        /\ sync' = [pc |-> IF best = flushed THEN "ended" ELSE "loop", pindex |-> best,
                    wrote |-> FALSE]
        /\ call' = [pc |-> "none", block |-> NoBlock]
        /\ reader' = [pc |-> "none", block |-> NoBlock]
        /\ UNCHANGED <<flushed, db, file>>
    BY <1>3, Zenon DEF Restart, disk
  <1> HIDE DEF best
  <1>6. \A a \in Ancestors[best] : FilterAt(db.height[Height[a]], a, db.pos)
    <2>1. ~CommitDue
      BY <1>2 DEF CommitDue
    <2>2. CASE AllThere
      BY <1>4, <2>2, Zenon DEF AllThere
    <2>3. CASE FlushedThere
      BY <1>4, <2>3, Zenon DEF FlushedThere
    <2> QED  BY <1>1, <1>2, <2>1, <2>2, <2>3, Zenon DEF LocatorOK
  <1>7. DiskOK'
    <2>1. DiskOK
      BY <1>1, Zenon
    <2>2. db.pos \in Nat
      BY <2>1, Zenon DEF DiskOK, Database
    <2>3. db.pos <= db.pos
      BY <2>2
    <2> QED  BY <2>1, <2>2, <2>3, <1>5, Zenon DEF DiskOK
  <1>8. /\ sync'.pc = (IF best = flushed THEN "ended" ELSE "loop") /\ sync'.pindex = best
        /\ sync' \in [pc : {"loop", "read", "write", "commit", "ended"}, pindex : BlockOrNone,
                      wrote : BOOLEAN]
        /\ call' \in [pc : {"none", "rewind", "write", "written", "commit"}, block : BlockOrNone]
        /\ reader' \in [pc : {"none", "waiting", "true"}, block : BlockOrNone]
        /\ call'.pc = "none" /\ reader'.pc = "none"
    BY <1>4, <1>5, Zenon DEF BlockOrNone
  <1>9. ThreadsOK'
    <2>1. restarts \in Nat /\ restarts' \in Nat
      BY <1>1, <1>5 DEF ThreadsOK
    <2> QED  BY <1>3, <1>4, <1>5, <1>8, <2>1, Zenon DEF ThreadsOK, BlockOrNone
  <1>10. Below(Reached)' = Ancestors[best]
    BY <1>4, <1>5, <1>8, Zenon DEF Below, Reached
  <1>11. WrittenOK'
    BY <1>5, <1>6, <1>10, Zenon DEF WrittenOK, FilterAt
  <1>12. KeptOK'
    <2>1. restarts' # 0
      BY <1>1, <1>5 DEF ThreadsOK
    <2> QED  BY <1>8, <2>1, Zenon DEF KeptOK
  <1>13. QueueOK'
    BY <1>5 DEF QueueOK
  <1>14. LeadsOK'
    <2>1. Best' = best
      BY <1>5, <1>8, Zenon DEF Best
    <2>2. m_synced' => tip' \in Ancestors[Best']
      BY <1>4, <1>5, <2>1, Zenon
    <2>3. \A i \in 1..Len(queue') : FALSE
      BY <1>5
    <2> QED  BY <2>2, <2>3, Zenon DEF LeadsOK
  <1>15. LocatorOK'
    <2> SUFFICES ASSUME best = flushed PROVE FlushedThere'
      BY <1>8, Zenon DEF LocatorOK
    <2> QED  BY <1>4, <1>5, <1>6, Zenon DEF FlushedThere, FilterAt
  <1> QED  BY <1>7, <1>9, <1>11, <1>12, <1>13, <1>14, <1>15, Zenon DEF IInv

-----------------------------------------------------------------------------
(* The theorems *)

LEMMA InitIInv == Init => IInv
  <1> SUFFICES ASSUME Init PROVE IInv
    BY Zenon
  <1>1. None \in Entry /\ None.block = NoBlock
    BY Zenon DEF None, Entry, BlockOrNone
  <1>2. /\ db \in Database /\ db.pos = 0 /\ m_next_filter_pos = 0 /\ file = <<>>
        /\ \A h \in Heights : db.height[h] = None
        /\ \A b \in Block : db.hash[b] = None
    BY <1>1, Zenon DEF Init, Database, BlockOrNone
  <1>3. DOMAIN file = {}
    BY <1>2
  <1>4. DiskOK
    BY <1>1, <1>2, <1>3, AncestryAssumption DEF DiskOK
  <1>5. ThreadsOK
    BY Zenon DEF Init, ThreadsOK, BlockOrNone
  <1>6. WrittenOK /\ KeptOK
    BY <1>3, Zenon DEF Init, WrittenOK, KeptOK, Below, Reached
  <1>7. QueueOK
    <2>1. queue = <<>> /\ Len(queue) = 0
      BY Zenon DEF Init
    <2> QED  BY <2>1 DEF QueueOK
  <1>8. LeadsOK /\ LocatorOK
    BY Zenon DEF Init, LeadsOK, LocatorOK
  <1> QED  BY <1>4, <1>5, <1>6, <1>7, <1>8, Zenon DEF IInv

LEMMA NextIInv ==
    ASSUME OrderlyStops, IInv, [Next]_vars
    PROVE  IInv'
  <1>1. ASSUME NEW b \in Block, ActivateChain(b) PROVE IInv'
    BY <1>1, ActivateChainOK, Zenon
  <1>2. CASE FlushChain
    BY <1>2, FlushChainOK, Zenon
  <1>3. CASE ThreadSync
    BY <1>3, SyncInterruptedOK, SyncDoneOK, SyncCommitOK, SyncNextOK, SyncRewindOK,
       SyncWriteLocatorOK, SyncWriteBlockOK, Zenon DEF ThreadSync
  <1>4. CASE Callback
    BY <1>4, BeginCallbackOK, CallbackCommitOK, CallbackWriteBlockOK, CallbackSetBestOK, Zenon
       DEF Callback
  <1>5. CASE BlockUntilSynced
    BY <1>5, BlockUntilSyncedOK
  <1>6. CASE Interrupt
    BY <1>6, InterruptOK, Zenon
  <1>7. CASE Restart
    BY <1>7, RestartOK, Zenon
  <1>8. CASE UNCHANGED vars
    <2>1. UNCHANGED <<tip, flushed, queue, m_synced, m_best_block_index, m_next_filter_pos, db,
                      file, sync, call, reader, halted, restarts>>
          /\ m_interrupt' = m_interrupt
      BY <1>8, Zenon DEF vars, memory, disk, counts
    <2> QED  BY <2>1, NothingDone, Zenon
  <1> QED  BY <1>1, <1>2, <1>3, <1>4, <1>5, <1>6, <1>7, <1>8, Zenon DEF Next

\* A block that is kept is found.
LEMMA KeptIsFound ==
    ASSUME DiskOK, WrittenOK, NEW b \in Block, Kept(b)
    PROVE  Lookup(b) = b
  <1> DEFINE e == IF db.height[Height[b]].block = b THEN db.height[Height[b]] ELSE db.hash[b]
  <1>1. FilterAt(e, b, m_next_filter_pos)
    <2>1. CASE db.height[Height[b]].block = b
      BY <2>1, Zenon DEF Kept
    <2>2. CASE db.height[Height[b]].block # b
      <3>1. b \notin Below(Reached)
        BY <2>2, Zenon DEF WrittenOK, FilterAt
      <3> QED  BY <2>2, <3>1, Zenon DEF Kept
    <2> QED  BY <2>1, <2>2, Zenon
  <1>2. e.block = b /\ e.pos \in DOMAIN file /\ file[e.pos] = b
    BY <1>1, Zenon DEF FilterAt
  <1>3. Lookup(b) = IF e # None /\ e.pos \in DOMAIN file THEN file[e.pos] ELSE NoBlock
    BY Zenon DEF Lookup
  <1> HIDE DEF e
  <1>4. e # None
    BY <1>2, AncestryAssumption DEF None
  <1> QED  BY <1>2, <1>3, <1>4, Zenon

\* WriteBlock always finds the previous block's entry below (blockfilterindex.cpp,
\* "previous block header belongs to unexpected block"), in ThreadSync and in
\* BlockConnected: the index never asks the node to shut down.
THEOREM NeverShutsDown == ASSUME OrderlyStops PROVE Spec => []NeverFatal
  <1>1. Init => IInv
    BY InitIInv, Zenon
  <1>2. IInv /\ [Next]_vars => IInv'
    BY NextIInv, Zenon
  <1>3. IInv => NeverFatal
    BY Zenon DEF IInv, ThreadsOK, NeverFatal
  <1> QED  BY <1>1, <1>2, <1>3, PTL DEF Spec

\* Once m_synced is set every block up to the best block has its filter, and when the
\* callbacks have run the best block's chain reaches the tip: ThreadSync hands over to
\* BlockConnected without losing a block, and a restart resumes where the database ends.
THEOREM NoBlockIsLost == ASSUME OrderlyStops PROVE Spec => []CompleteToBest
  <1>1. Init => IInv
    BY InitIInv
  <1>2. IInv /\ [Next]_vars => IInv'
    BY NextIInv, Zenon
  <1>3. IInv => CompleteToBest
    <2> SUFFICES ASSUME IInv PROVE CompleteToBest
      BY Zenon
    <2>1. DiskOK /\ ThreadsOK /\ WrittenOK /\ LeadsOK
      BY Zenon DEF IInv
    <2>2. TypeOK
      <3>1. \A h \in Heights : db.height[h].block \in Block \cup {NoBlock}
        BY <2>1, Zenon DEF DiskOK, Database, Entry, BlockOrNone
      <3>2. db.pos \in 0..m_next_filter_pos /\ db.locator \in Block \cup {NoBlock}
        BY <2>1 DEF DiskOK, Database, BlockOrNone
      <3> QED  BY <2>1, <3>1, <3>2 DEF TypeOK, DiskOK, ThreadsOK, BlockOrNone
    <2>3. ASSUME m_synced, NEW b \in Ancestors[m_best_block_index] PROVE Lookup(b) = b
      <3>1. m_best_block_index \in Block /\ b \in Below(Reached)
        BY <2>1, <2>3, BestReached, Zenon
      <3>2. b \in Block /\ Kept(b)
        BY <2>1, <3>1, AncestorsEnds, Zenon DEF Kept, WrittenOK
      <3> QED  BY <2>1, <3>2, KeptIsFound, Zenon
    <2>4. ASSUME m_synced, queue = <<>>, call.pc = "none"
          PROVE  tip \in Ancestors[m_best_block_index]
      BY <2>1, <2>4 DEF LeadsOK, Leads, Best
    <2> QED  BY <2>2, <2>3, <2>4, Zenon DEF CompleteToBest
  <1> QED  BY <1>1, <1>2, <1>3, PTL DEF Spec

\* Within one run of the node the filter of every block that was ever written is found,
\* by height or, after Rewind has copied it, by hash.
THEOREM RewindLosesNothing == ASSUME OrderlyStops PROVE Spec => []FoundAfterReorg
  <1>1. Init => IInv
    BY InitIInv
  <1>2. IInv /\ [Next]_vars => IInv'
    BY NextIInv
  <1>3. IInv => FoundAfterReorg
    BY KeptIsFound, Zenon DEF IInv, KeptOK, DiskOK, FoundAfterReorg
  <1> QED  BY <1>1, <1>2, <1>3, PTL DEF Spec

\* A caller to whom BlockUntilSyncedToCurrentChain answers true, at once or after the
\* callbacks that were queued, finds the tip that was active when it asked.
THEOREM ReaderIsServed == ASSUME OrderlyStops PROVE Spec => []ReaderFindsTip
  <1>1. Init => IInv
    BY InitIInv
  <1>2. IInv /\ [Next]_vars => IInv'
    BY NextIInv
  <1>3. IInv => ReaderFindsTip
    <2> SUFFICES ASSUME IInv, reader.pc = "true" PROVE Lookup(reader.block) = reader.block
      BY Zenon DEF ReaderFindsTip
    <2>1. DiskOK /\ WrittenOK /\ reader.block \in Block /\ Kept(reader.block)
      BY Zenon DEF IInv, KeptOK, ThreadsOK, BlockOrNone
    <2> QED  BY <2>1, KeptIsFound, Zenon
  <1> QED  BY <1>1, <1>2, <1>3, PTL DEF Spec
=============================================================================
