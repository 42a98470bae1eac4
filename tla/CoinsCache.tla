----------------------------- MODULE CoinsCache -----------------------------
(***************************************************************************)
(* The stack of coin views of a running node: the coins database, the      *)
(* CoinsTip() cache over it, and the short-lived cache that ConnectTip,    *)
(* DisconnectTip, TestBlockValidity and VerifyDB put on top of it while    *)
(* they work on one block (all of them under cs_main).                     *)
(*                                                                         *)
(* The actions are the calls these users make, in any order their own      *)
(* checks permit.  Reading changes the caches too: a miss in the upper     *)
(* cache calls GetCoin of the lower one, which caches what it finds.       *)
(***************************************************************************)
EXTENDS CoinsView

CONSTANTS Hash, NullHash
ASSUME HashAssumption == NullHash \notin Hash

VARIABLES
    db,        \* coin records of CCoinsViewDB
    dbBest,    \* DB_BEST_BLOCK
    tip,       \* cacheCoins of CoinsTip()
    tipBest,   \* its hashBlock, null until first asked for
    view,      \* cacheCoins of the cache on top of it
    viewBest,  \* its hashBlock
    viewOpen,  \* the upper cache exists
    thrown     \* a std::logic_error was thrown: the process is going down

vars == <<db, dbBest, tip, tipBest, view, viewBest, viewOpen, thrown>>

\* What GetCoin answers at each level.
TipCoins  == Through(tip, db)
ViewCoins == Through(view, TipCoins)

\* Faulty GetBestBlock: the parent is not asked.
TipBestBlock_OwnOnly == tipBest

\* GetBestBlock: the cache's own hash, else the parent's (which is then kept).
TipBestBlock == IF tipBest = NullHash THEN dbBest ELSE tipBest

Init ==
    /\ db \in View /\ \A o \in OutPoint : db[o] \notin Unspendable
    /\ dbBest \in Hash
    /\ tip = EmptyCache /\ tipBest = NullHash
    /\ view = EmptyCache /\ viewBest = NullHash /\ viewOpen = FALSE
    /\ thrown = FALSE

-----------------------------------------------------------------------------
(* The upper cache *)

\* The effect on CoinsTip() of FetchCoin(o) in the upper cache.
FetchThroughTip(o) ==
    tip' = IF view[o] = NoEntry THEN FetchCoin(tip, db, o) ELSE tip

\* CCoinsViewCache view(&CoinsTip()), and GetBestBlock in the assertions that
\* open ConnectBlock and DisconnectTip.
OpenView ==
    /\ ~viewOpen /\ ~thrown
    /\ viewOpen' = TRUE
    /\ tipBest' = TipBestBlock
    /\ viewBest' = TipBestBlock
    /\ UNCHANGED <<db, dbBest, tip, view, thrown>>

\* GetCoin, HaveCoin, AccessCoin: CheckTxInputs, sequence locks, BIP30, sigops.
ViewAccess(o) ==
    /\ viewOpen /\ ~thrown
    /\ FetchThroughTip(o)
    /\ view' = FetchCoin(view, TipCoins, o)
    /\ UNCHANGED <<db, dbBest, tipBest, viewBest, viewOpen, thrown>>

\* UpdateCoins on an input (CheckTxInputs has seen it unspent), DisconnectBlock
\* on an output (which may be missing, then the block is not undone cleanly).
ViewSpend(o) ==
    /\ viewOpen /\ ~thrown
    /\ FetchThroughTip(o)
    /\ view' = SpendCoin(view, TipCoins, o)
    /\ UNCHANGED <<db, dbBest, tipBest, viewBest, viewOpen, thrown>>

\* AddCoins on an output of a transaction being connected.  A coinbase may
\* overwrite; another transaction may not, and the BIP30 check of ConnectBlock
\* (or the unique coinbases of BIP34) has excluded that it would.
ViewAddOutput(o, coin, fCoinbase) ==
    /\ viewOpen /\ ~thrown
    /\ fCoinbase \/ ~HaveCoin(view, TipCoins, o)
    /\ thrown' = AddCoinThrows(view, o, coin, fCoinbase)
    /\ view' = AddCoin(view, o, coin, fCoinbase)
    /\ UNCHANGED <<db, dbBest, tip, tipBest, viewBest, viewOpen>>

\* ApplyTxInUndo: put back the coin an input spent, overwriting if one exists.
\* Only coins that were in the set are in undo data, so none is unspendable.
ViewRestoreInput(o, coin) ==
    LET have == HaveCoin(view, TipCoins, o)
        v    == FetchCoin(view, TipCoins, o)
    IN
    /\ viewOpen /\ ~thrown
    /\ FetchThroughTip(o)
    /\ thrown' = AddCoinThrows(v, o, coin, have)
    /\ view' = AddCoin(v, o, coin, have)
    /\ UNCHANGED <<db, dbBest, tipBest, viewBest, viewOpen>>

\* SetBestBlock at the end of ConnectBlock or DisconnectBlock, then Flush into
\* CoinsTip().  A throw leaves the maps half merged, and nobody reads them.
FlushView(h) ==
    /\ viewOpen /\ ~thrown
    /\ thrown' = BatchWriteThrows(tip, view)
    /\ tip' = BatchWrite(tip, view)
    /\ tipBest' = h
    /\ view' = EmptyCache
    /\ viewBest' = NullHash
    /\ viewOpen' = FALSE
    /\ UNCHANGED <<db, dbBest>>

\* The block is invalid, not cleanly undone, or was only tested.
DropView ==
    /\ viewOpen /\ ~thrown
    /\ view' = EmptyCache
    /\ viewBest' = NullHash
    /\ viewOpen' = FALSE
    /\ UNCHANGED <<db, dbBest, tip, tipBest, thrown>>

-----------------------------------------------------------------------------
(* CoinsTip(), between blocks *)

\* GetCoin, HaveCoin, AccessCoin on CoinsTip() (mempool acceptance, RPC).
TipAccess(o) ==
    /\ ~viewOpen /\ ~thrown
    /\ tip' = FetchCoin(tip, db, o)
    /\ UNCHANGED <<db, dbBest, tipBest, view, viewBest, viewOpen, thrown>>

\* Uncache: coins a rejected or evicted transaction brought in.
TipUncache(o) ==
    /\ ~viewOpen /\ ~thrown
    /\ tip' = Uncache(tip, o)
    /\ UNCHANGED <<db, dbBest, tipBest, view, viewBest, viewOpen, thrown>>

\* The last part of FlushStateToDisk: CoinsTip().Flush() into the database.
FlushTip ==
    /\ ~viewOpen /\ ~thrown
    /\ tipBest' = TipBestBlock
    /\ db' = WriteDirty(db, tip)
    /\ dbBest' = TipBestBlock
    /\ tip' = EmptyCache
    /\ UNCHANGED <<view, viewBest, viewOpen, thrown>>

Next ==
    \/ OpenView
    \/ \E o \in OutPoint : ViewAccess(o) \/ ViewSpend(o)
    \/ \E o \in OutPoint, coin \in Coin, fCoinbase \in BOOLEAN :
            ViewAddOutput(o, coin, fCoinbase)
    \/ \E o \in OutPoint, coin \in Coin \ Unspendable : ViewRestoreInput(o, coin)
    \/ \E h \in Hash : FlushView(h)
    \/ DropView
    \/ \E o \in OutPoint : TipAccess(o) \/ TipUncache(o)
    \/ FlushTip

Spec == Init /\ [][Next]_vars

-----------------------------------------------------------------------------
(* Properties *)

\* The types of the three views and of their best blocks.
TypeOK ==
    /\ db \in View /\ dbBest \in Hash
    /\ tip \in Cache /\ tipBest \in Hash \cup {NullHash}
    /\ view \in Cache /\ viewBest \in Hash \cup {NullHash}
    /\ viewOpen \in BOOLEAN /\ thrown \in BOOLEAN

\* What the flags of one cache claim about the view below it: an entry that is
\* not DIRTY repeats an unspent coin of the parent, and a FRESH entry is an
\* unspent coin the parent does not have.
FlagsSound(cache, below) ==
    \A o \in OutPoint : cache[o] # NoEntry =>
        /\ ~Dirty(cache[o]) => cache[o].coin # NoCoin /\ cache[o].coin = below[o]
        /\ Fresh(cache[o])  => /\ Dirty(cache[o])
                               /\ cache[o].coin # NoCoin
                               /\ below[o] = NoCoin

\* "Marking a coin as FRESH when it exists unspent in the parent cache will
\* cause a consensus failure", and so will a change that is not DIRTY
\* (CCoinsCacheEntry, coins.h): neither happens at either level.
CacheFlagsSound ==
    /\ FlagsSound(tip, db)
    /\ FlagsSound(view, TipCoins)

\* The "FRESH flag misapplied" and "Attempted to overwrite an unspent coin"
\* logic errors of AddCoin and BatchWrite are never thrown.
NoLogicError == ~thrown

\* The stack of caches is one transactional map: reading, caching, uncaching
\* and the FRESH shortcuts are invisible to its users, and what is flushed to
\* the database is exactly what the node answered.
Store == INSTANCE UtxoStore WITH
    disk <- db, diskBest <- dbBest,
    utxo <- TipCoins, best <- TipBestBlock,
    pending <- ViewCoins, open <- viewOpen

ImplementsStore == Store!Spec
=============================================================================
