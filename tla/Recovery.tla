------------------------------- MODULE Recovery -------------------------------
(***************************************************************************)
(* How the chainstate survives a crash.                                    *)
(*                                                                         *)
(* FlushStateToDisk first makes block data, undo data and the block index  *)
(* durable, then flushes CoinsTip() into the coins database in batches     *)
(* (CCoinsViewDB::BatchWrite).  Between the first and the last batch the   *)
(* database holds a mixture of two states, marked by DB_HEAD_BLOCKS.  At   *)
(* startup ReplayBlocks turns the mixture into the newer state.            *)
(*                                                                         *)
(* A process crash keeps what was handed to the database.  A power failure *)
(* may also lose the latest batches: the coins database is written without *)
(* sync, the block index with sync.                                        *)
(*                                                                         *)
(* The extension block (MWEB) keeps its own coins, MMR files and best      *)
(* header beside the coins; they are flushed in the last batch.            *)
(***************************************************************************)
EXTENDS BlockCoins

CONSTANTS
    MwebBlocks,   \* the blocks with an extension block, closed under children
    Prunable,     \* the blocks whose files may be pruned
    MinBlocksToKeep,
    MaxLag,       \* bound: how far the coins on disk are behind the tip when files are
                  \* pruned (the code does not limit it)
    MaxCrashes    \* bound: crashes and power failures in one behaviour

NoUndo == <<>>
NoFlush == [todo |-> {}, hash |-> NoBlock]

\* What the extension block's state should be after b: the MMRs and coins as of
\* b, and b's header; nothing before activation.
MwebAt(b) == IF b \in MwebBlocks THEN b ELSE NoBlock

ASSUME RecoveryAssumption ==
    /\ NoBlock \notin Block /\ Genesis \in Block \ MwebBlocks
    /\ MaxCrashes \in Nat
    /\ NoUndo \notin View
    /\ \A b \in Block \ {Genesis} :
           Parent[b] \in Block /\ (Parent[b] \in MwebBlocks => b \in MwebBlocks)
    \* the blocks are valid: inputs are unspent, outputs do not exist yet
    /\ \A b \in Block \ {Genesis} : \A i \in 1..Len(Vtx[b]) :
           LET before == MapAfter(UtxoAt[Parent[b]], b)[i - 1]
           IN /\ \A o \in Vtx[b][i].ins  : before[o] # NoCoin
              /\ \A o \in Vtx[b][i].outs : before[o] = NoCoin

VARIABLES
    \* durable
    db,         \* coins database: [coins, best, heads, mweb]
    synced,     \* the part of db a power failure cannot take away
    diskIndex,  \* block index on disk: [data, undo, pruned]
    \* volatile
    node,       \* "down", "loading", "running", "failed"
    index,      \* block index in memory: [data, undo, pruned]
    tip,        \* cacheCoins of CoinsTip(), or of the cache ReplayBlocks fills
    tipBest,    \* its hashBlock
    mweb,       \* the extension block's cache: [state, header]
    flush,      \* the BatchWrite under way: outpoints left and the new tip
    crashes

vars == <<db, synced, diskIndex, node, index, tip, tipBest, mweb, flush, crashes>>

volatile == <<node, index, tip, tipBest, mweb, flush>>

Idle == node = "running" /\ flush = NoFlush

Init ==
    /\ db = [coins |-> [o \in OutPoint |-> NoCoin], best |-> NoBlock,
             heads |-> <<>>, mweb |-> NoBlock]
    /\ synced = db
    /\ diskIndex = [data |-> {Genesis}, undo |-> [b \in Block |-> NoUndo], pruned |-> {}]
    /\ node = "running"
    /\ index = diskIndex
    /\ tip = EmptyCache /\ tipBest = NoBlock
    /\ mweb = [state |-> NoBlock, header |-> NoBlock]
    /\ flush = NoFlush
    /\ crashes = 0

-----------------------------------------------------------------------------
(* Running *)

\* The blocks in the index, with their data or without it.
Indexed == index.data \cup index.pruned

\* AcceptBlock: the block is written to a block file and enters the index.  (A pruned
\* block is not fetched again here; Chainstate models that.)
AcceptBlock(b) ==
    /\ Idle
    /\ b \notin Indexed /\ Parent[b] \in Indexed
    /\ index' = [index EXCEPT !.data = @ \cup {b}]
    /\ UNCHANGED <<db, synced, diskIndex, node, tip, tipBest, mweb, flush, crashes>>

\* Reading through CoinsTip() leaves unmodified entries in it.
Fetched(touched) ==
    [o \in OutPoint |-> IF o \in touched THEN FetchCoin(tip, db.coins, o)[o] ELSE tip[o]]

TouchedBy(b) == UNION {Vtx[b][i].ins \cup Vtx[b][i].outs : i \in DOMAIN Vtx[b]}

\* mw::CoinsViewCache::Flush into the cache below: nothing without a header.
MwebFlush(upper, lower) == IF upper.header = NoBlock THEN lower ELSE upper

\* ConnectTip: ConnectBlock on a view over CoinsTip(), undo data, view.Flush().
\* Genesis only moves the best block.  An extension block does not connect to a
\* state other than its parent's (its MMR roots differ).
ConnectTip(b) ==
    LET s == ConnectCoins(Through(tip, db.coins), b) IN
    /\ Idle
    /\ b \in index.data
    /\ b \in MwebBlocks => mweb.state = MwebAt(Parent[b])
    /\ IF b = Genesis THEN tipBest = NoBlock /\ db.best = NoBlock
                      ELSE tipBest = Parent[b]
    /\ tip' = BatchWrite(Fetched(TouchedBy(b)), s.cache)
    /\ tipBest' = b
    /\ index' = IF index.undo[b] = NoUndo /\ b # Genesis
                THEN [index EXCEPT !.undo[b] = s.undo] ELSE index
    /\ mweb' = IF b \in MwebBlocks
               THEN MwebFlush([state |-> b, header |-> b], mweb)
               ELSE mweb
    /\ UNCHANGED <<db, synced, diskIndex, node, flush, crashes>>

\* A chain without b has more work.
Outdone(b) == \E c \in index.data : Height[c] > Height[b] /\ b \notin Ancestors[c]

\* DisconnectTip.  A missing undo record, an unclean result or MMR roots that
\* are not the parent's after the rewind abort the node.  A pruned block cannot be
\* read: InvalidateBlock then gives up, a reorganisation aborts the node.
DisconnectTip ==
    LET b   == tipBest
        r   == DisconnectCoins(EmptyCache, Through(tip, db.coins), b, index.undo[b])
        up  == MwebAt(Parent[b])
    IN
    /\ Idle
    /\ b \notin {NoBlock, Genesis}
    /\ b \in index.pruned => Outdone(b)
    /\ IF \/ index.undo[b] = NoUndo
          \/ ~r.fClean
          \/ b \in MwebBlocks /\ up # NoBlock /\ mweb.state # b
       THEN /\ node' = "failed"
            /\ UNCHANGED <<tip, tipBest, mweb>>
       ELSE /\ tip' = BatchWrite(Fetched(TouchedBy(b)), r.cache)
            /\ tipBest' = Parent[b]
            /\ mweb' = IF b \in MwebBlocks
                       THEN MwebFlush([state |-> up, header |-> up], mweb)
                       ELSE mweb
            /\ UNCHANGED node
    /\ UNCHANGED <<db, synced, diskIndex, index, flush, crashes>>

-----------------------------------------------------------------------------
(* FlushStateToDisk *)

\* The periodic write: block files and the block index only.
WriteBlockIndex ==
    /\ Idle
    /\ diskIndex' = index
    /\ UNCHANGED <<db, synced, node, index, tip, tipBest, mweb, flush, crashes>>

DirtyOutPoints(cache) == {o \in OutPoint : cache[o] # NoEntry /\ Dirty(cache[o])}

\* Faulty FindFilesToPrune: one block too many.
FindFilesToPrune_KeepsOneLess ==
    {b \in Prunable \cap index.data :
        tipBest # NoBlock /\ Height[b] <= Height[tipBest] - MinBlocksToKeep + 1}

\* FindFilesToPrune and FindFilesToPruneManual: files whose blocks are all at least
\* MIN_BLOCKS_TO_KEEP below the tip.  A block stands for its file.
FindFilesToPrune ==
    {b \in Prunable \cap index.data :
        tipBest # NoBlock /\ Height[b] <= Height[tipBest] - MinBlocksToKeep}

\* PruneOneBlockFile for each file.
PruneOneBlockFile(files) ==
    [data   |-> index.data \ files,
     undo   |-> [b \in Block |-> IF b \in files THEN NoUndo ELSE index.undo[b]],
     pruned |-> index.pruned \cup files]

\* How far the tip is from the last block it shares with each of the tips that a
\* coins database stands for or lies between.
Lags(d) ==
    {IF h = NoBlock THEN Height[tipBest]
     ELSE Height[tipBest] - Height[LastCommonAncestor(h, tipBest)] :
        h \in IF d.heads = <<>> THEN {d.best} ELSE {d.heads[1], d.heads[2]}}

\* A full flush: block files and block index, pruned files are removed, then
\* CoinsTip().Flush() begins.
BeginFlush(files) ==
    /\ Idle
    /\ tipBest # NoBlock
    /\ files \subseteq FindFilesToPrune
    /\ files # {} => \A lag \in Lags(db) \cup Lags(synced) : lag <= MaxLag
    /\ index' = PruneOneBlockFile(files)
    /\ diskIndex' = index'
    /\ flush' = [todo |-> DirtyOutPoints(tip), hash |-> tipBest]
    /\ UNCHANGED <<db, synced, node, tip, tipBest, mweb, crashes>>

\* The coins with the entries of some outpoints written or erased.
Written(outpoints) ==
    [o \in OutPoint |-> IF o \in outpoints THEN tip[o].coin ELSE db.coins[o]]

\* Faulty OldTip: the heads of an interrupted flush are not consulted.
OldTip_BestOnly == db.best

\* The tip the transition starts from; in the middle of a replay it is the one
\* the interrupted flush started from.
OldTip == IF db.best = NoBlock /\ db.heads # <<>> THEN db.heads[2] ELSE db.best

\* Faulty PartialBatch: DB_BEST_BLOCK is not erased.
PartialBatch_KeepsBest(outpoints) ==
    /\ flush # NoFlush
    /\ outpoints \subseteq flush.todo
    /\ db' = [db EXCEPT !.coins = Written(outpoints),
                        !.heads = <<flush.hash, OldTip>>]
    /\ flush' = [flush EXCEPT !.todo = @ \ outpoints]
    /\ UNCHANGED <<synced, diskIndex, node, index, tip, tipBest, mweb, crashes>>

\* BatchWrite writes a partial batch; every batch but the last leaves the
\* database marked as being between two tips.
PartialBatch(outpoints) ==
    /\ flush # NoFlush
    /\ outpoints \subseteq flush.todo
    /\ db' = [db EXCEPT !.coins = Written(outpoints),
                        !.best  = NoBlock,
                        !.heads = <<flush.hash, OldTip>>]
    /\ flush' = [flush EXCEPT !.todo = @ \ outpoints]
    /\ UNCHANGED <<synced, diskIndex, node, index, tip, tipBest, mweb, crashes>>

\* Faulty FinalBatch: the flush is not over after it.
FinalBatch_GoesOn ==
    /\ flush # NoFlush
    /\ db' = [coins |-> Written(flush.todo), best |-> flush.hash, heads |-> <<>>,
              mweb |-> IF mweb.header = NoBlock THEN db.mweb ELSE mweb.state]
    /\ flush' = [flush EXCEPT !.todo = {}]
    /\ UNCHANGED <<synced, diskIndex, node, index, tip, tipBest, mweb, crashes>>

\* The last batch: the rest of the coins, the extension block's coins and MMR
\* position (unless its cache has no header), and the new best block.
FinalBatch ==
    /\ flush # NoFlush
    /\ db' = [coins |-> Written(flush.todo), best |-> flush.hash, heads |-> <<>>,
              mweb |-> IF mweb.header = NoBlock THEN db.mweb ELSE mweb.state]
    /\ flush' = NoFlush
    /\ tip' = EmptyCache
    /\ node' = "running"
    /\ mweb' = [mweb EXCEPT !.state = db'.mweb]
    /\ UNCHANGED <<synced, diskIndex, index, tipBest, crashes>>

\* The operating system writes what the database handed to it.
Sync ==
    /\ synced # db
    /\ synced' = db
    /\ UNCHANGED <<db, diskIndex, crashes, volatile>>

-----------------------------------------------------------------------------
(* Crash and startup *)

Crash ==
    /\ node \in {"loading", "running"}
    /\ crashes < MaxCrashes
    /\ crashes' = crashes + 1
    /\ \/ UNCHANGED db
       \/ db' = synced
    /\ node' = "down"
    /\ index' = diskIndex
    /\ tip' = EmptyCache /\ tipBest' = NoBlock
    /\ mweb' = [state |-> NoBlock, header |-> NoBlock]
    /\ flush' = NoFlush
    /\ UNCHANGED <<synced, diskIndex>>

\* ReplayBlocks fills a cache over the database: disconnect the blocks of the
\* old branch down to the fork (unclean results are fine), roll forward along the
\* new one, height by height.
ReplayCoins(new, old) ==
    LET fork == IF old = NoBlock THEN Genesis ELSE LastCommonAncestor(old, new)
        undone[h \in Height[fork]..Height[old]] ==
            IF h = Height[old] THEN EmptyCache
            ELSE LET b == GetAncestor(old, h + 1)
                 IN DisconnectCoins(undone[h + 1], db.coins, b, index.undo[b]).cache
        start == IF old = NoBlock THEN EmptyCache ELSE undone[Height[fork]]
        rolled[h \in Height[fork]..Height[new]] ==
            IF h = Height[fork] THEN start
            ELSE RollforwardBlock(rolled[h - 1], db.coins, GetAncestor(new, h))
    IN rolled[Height[new]]

\* ReplayBlocks gives up on an unknown block, or one it cannot read or undo: for
\* lack of undo data, or because the MMRs do not rewind to the parent's roots.
ReplayFails(new, old) ==
    \/ new \notin Indexed
    \/ ~(Ancestors[new] \ Ancestors[IF old = NoBlock THEN Genesis ELSE old] \subseteq index.data)
    \/ old # NoBlock /\
         \/ old \notin Indexed
         \/ \E b \in Ancestors[old] \ Ancestors[new] :
                b \notin index.data \/ index.undo[b] = NoUndo
         \/ /\ old \in MwebBlocks \ Ancestors[new]
            /\ MwebAt(Parent[old]) # NoBlock /\ db.mweb # old

\* The extension block's cache during a replay.  It opens with the header of
\* DB_BEST_BLOCK, which is erased then; DisconnectBlock moves it back along the
\* old branch, RollforwardBlock does not touch it.
ReplayMweb(new, old) ==
    LET fork == LastCommonAncestor(old, new) IN
    IF old \notin MwebBlocks \/ fork = old
    THEN [state |-> db.mweb, header |-> NoBlock]
    ELSE [state |-> MwebAt(fork), header |-> MwebAt(fork)]

\* Faulty Startup: the newer head is taken for the best block, without a replay.
Startup_NoReplay ==
    /\ node = "down"
    /\ node' = "running"
    /\ tipBest' = IF db.heads = <<>> THEN db.best ELSE db.heads[1]
    /\ mweb' = [state |-> db.mweb, header |-> MwebAt(db.best)]
    /\ UNCHANGED <<db, synced, diskIndex, index, tip, flush, crashes>>

\* LoadBlockIndex, InitCoinsDB, ReplayBlocks up to its Flush, LoadChainTip.
Startup ==
    /\ node = "down"
    /\ IF db.heads = <<>>
       THEN /\ node' = IF db.best = NoBlock \/ db.best \in Indexed
                       THEN "running" ELSE "failed"
            /\ tipBest' = db.best
            /\ mweb' = [state |-> db.mweb, header |-> MwebAt(db.best)]
            /\ UNCHANGED <<tip, flush>>
       ELSE LET new == db.heads[1]
                old == db.heads[2]
            IN IF ReplayFails(new, old)
               THEN /\ node' = "failed"
                    /\ UNCHANGED <<tip, tipBest, mweb, flush>>
               ELSE /\ node' = "loading"
                    /\ tip' = ReplayCoins(new, old)
                    /\ tipBest' = new
                    /\ mweb' = IF old = NoBlock
                               THEN [state |-> db.mweb, header |-> NoBlock]
                               ELSE ReplayMweb(new, old)
                    /\ flush' = [todo |-> DirtyOutPoints(tip'), hash |-> new]
    /\ UNCHANGED <<db, synced, diskIndex, index, crashes>>

Next ==
    \/ \E b \in Block : AcceptBlock(b) \/ ConnectTip(b)
    \/ DisconnectTip
    \/ WriteBlockIndex
    \/ \E files \in SUBSET FindFilesToPrune : BeginFlush(files)
    \/ \E outpoints \in SUBSET flush.todo : PartialBatch(outpoints)
    \/ FinalBatch
    \/ Sync
    \/ Crash
    \/ Startup

Spec == Init /\ [][Next]_vars

\* What Startup, and no other step, does to a node that is down.
ComesUp == node = "down" /\ node' \in {"loading", "running", "failed"}

\* A node that is down is started again, and a batch that was begun is written:
\* BatchWrite and startup are sequential code that does not wait for anything.
FairSpec == Spec /\ WF_node(ComesUp) /\ WF_vars(FinalBatch)

-----------------------------------------------------------------------------
(* Properties *)

\* The type of the durable and the volatile state; heads is empty or a pair.
TypeOK ==
    LET BlockOrNone == Block \cup {NoBlock}
        Database == [coins : View, best : BlockOrNone, mweb : BlockOrNone,
                     heads : {<<>>} \cup (Block \X BlockOrNone)]
        Index == [data : SUBSET Block, undo : [Block -> View \cup {NoUndo}],
                  pruned : SUBSET Prunable]
    IN /\ db \in Database /\ synced \in Database
       /\ diskIndex \in Index /\ index \in Index
       /\ node \in {"down", "loading", "running", "failed"}
       /\ tip \in Cache /\ tipBest \in BlockOrNone
       /\ mweb \in [state : BlockOrNone, header : BlockOrNone]
       /\ flush.todo \subseteq OutPoint /\ flush.hash \in BlockOrNone
       /\ crashes \in 0..MaxCrashes

\* While the node runs, the coins seen through CoinsTip() are exactly the
\* unspent coins of its best block, whatever sequence of connects, disconnects,
\* interrupted flushes, crashes and replays led there (ReplayBlocks: "the result
\* is still a version of the UTXO set with the effects of that block undone").
CoinsMatchBestBlock ==
    Idle /\ tipBest # NoBlock => Through(tip, db.coins) = UtxoAt[tipBest]

\* The state is well typed, and a coins database that names a best block
\* (DB_BEST_BLOCK) holds exactly the unspent coins of that block: also the one a
\* power failure would leave.
NamedStateIsComplete ==
    /\ TypeOK
    /\ \A d \in {db, synced} :
          d.best # NoBlock => d.coins = UtxoAt[d.best] /\ d.heads = <<>>

\* Startup always succeeds: every block DB_BEST_BLOCK or DB_HEAD_BLOCKS names is
\* in the block index on disk, with the block and undo data a replay needs, because
\* FlushStateToDisk writes the index before the coins; and a running node can
\* always disconnect its tip cleanly.  Files are unlinked before the coins are
\* flushed, so this also needs the last MIN_BLOCKS_TO_KEEP blocks to reach down to
\* what the coins on disk, and a replay from them, depend on.
StartupSucceeds == node # "failed"

\* BatchWrite's assert(old_heads[0] == hashBlock): the only flush that meets a
\* half-written database is the replay of that very transition.
FlushResumesTransition ==
    flush # NoFlush /\ db.best = NoBlock /\ db.heads # <<>> =>
        db.heads[1] = flush.hash

\* ReplayBlocks leaves the database complete for the new tip, the extension
\* block included: "The on-disk coinsdb is now in a good state" (init.cpp).
ReplayRestoresMweb ==
    [][node = "loading" /\ node' = "running" => db'.mweb = MwebAt(db'.best)]_vars

\* DisconnectTip takes the extension block's state back to the parent's:
\* UndoBlock "Removes a block from the end of the chain", and Flush "Commits
\* the changes from the cached CoinsView to the base CoinsView".
DisconnectUndoesMweb ==
    [][node' = "running" /\ tipBest \in MwebBlocks /\ tipBest' = Parent[tipBest]
           => mweb'.state = MwebAt(tipBest')]_vars

\* A node that went down comes back with a complete database, however often the
\* replay itself is interrupted (the crashes are finite in number).
ComesBack == node = "down" ~> Idle
=============================================================================
