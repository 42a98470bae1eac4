------------------------------ MODULE CoinsView ------------------------------
(***************************************************************************)
(* The value types of src/coins.h and the operations of CCoinsViewCache    *)
(* (src/coins.cpp) as operators on the cacheCoins map of one cache.        *)
(*                                                                         *)
(* A cache is one level of a stack.  "below" is what the parent's GetCoin  *)
(* answers for every outpoint: a coin, or NoCoin when the parent has no    *)
(* entry or a spent one (GetCoin returns false for both).                  *)
(***************************************************************************)

CONSTANTS
    OutPoint,      \* COutPoint
    Coin,          \* unspent Coin values (output, height, coinbase flag)
    Unspendable,   \* the coins whose scriptPubKey.IsUnspendable()
    NoCoin,        \* a spent (nulled) or missing coin
    NoEntry        \* cacheCoins has no entry for the outpoint

Flag == {"DIRTY", "FRESH"}

\* CCoinsCacheEntry: the cached coin and its flags.
Entry == [coin : Coin \cup {NoCoin}, flags : SUBSET Flag]

ASSUME CoinsViewAssumption ==
    /\ NoCoin \notin Coin
    /\ NoEntry \notin Entry
    /\ Unspendable \subseteq Coin

\* What a plain view (the coins database) answers: outpoint to coin.
View == [OutPoint -> Coin \cup {NoCoin}]

\* The cacheCoins member of a CCoinsViewCache.
Cache == [OutPoint -> Entry \cup {NoEntry}]

EmptyCache == [o \in OutPoint |-> NoEntry]

Dirty(e) == "DIRTY" \in e.flags
Fresh(e) == "FRESH" \in e.flags

-----------------------------------------------------------------------------
(* Reading *)

\* What GetCoin of a cache answers: the cached entry, else the parent.
Through(cache, below) ==
    [o \in OutPoint |-> IF cache[o] # NoEntry THEN cache[o].coin ELSE below[o]]

\* FetchCoin: an unspent coin of the parent is cached with no flags.  (The code
\* also marks a spent coin FRESH, but the parent's GetCoin never hands one out.)
FetchCoin(cache, below, o) ==
    IF cache[o] = NoEntry /\ below[o] # NoCoin
    THEN [cache EXCEPT ![o] = [coin |-> below[o], flags |-> {}]]
    ELSE cache

HaveCoin(cache, below, o) == Through(cache, below)[o] # NoCoin

-----------------------------------------------------------------------------
(* Changing *)

\* AddCoin's std::logic_error: a cached unspent coin would be overwritten.
AddCoinThrows(cache, o, coin, possible_overwrite) ==
    /\ coin \notin Unspendable
    /\ ~possible_overwrite
    /\ cache[o] # NoEntry
    /\ cache[o].coin # NoCoin

\* Faulty AddCoin: a spent entry that waits to be flushed may become FRESH.
AddCoin_FreshWhenDirty(cache, o, coin, possible_overwrite) ==
    IF coin \in Unspendable THEN cache
    ELSE LET old   == IF cache[o] = NoEntry THEN {} ELSE cache[o].flags
             fresh == IF ~possible_overwrite THEN {"FRESH"} ELSE {}
         IN [cache EXCEPT ![o] = [coin  |-> coin,
                                  flags |-> old \cup {"DIRTY"} \cup fresh]]

\* AddCoin: the entry becomes DIRTY; it becomes FRESH when the caller vouches
\* that no unspent coin is replaced and no earlier change waits to be flushed.
AddCoin(cache, o, coin, possible_overwrite) ==
    IF coin \in Unspendable THEN cache
    ELSE LET old   == IF cache[o] = NoEntry THEN {} ELSE cache[o].flags
             fresh == IF ~possible_overwrite /\ "DIRTY" \notin old
                      THEN {"FRESH"} ELSE {}
         IN [cache EXCEPT ![o] = [coin  |-> coin,
                                  flags |-> old \cup {"DIRTY"} \cup fresh]]

\* The entry SpendCoin found: a FRESH one is dropped, another one is kept as
\* spent and DIRTY; with no coin to spend nothing changes (the call is false).
SpendEntry(cache, o) ==
    IF cache[o] = NoEntry THEN cache
    ELSE IF Fresh(cache[o]) THEN [cache EXCEPT ![o] = NoEntry]
    ELSE [cache EXCEPT ![o] = [coin  |-> NoCoin,
                               flags |-> cache[o].flags \cup {"DIRTY"}]]

SpendCoin(cache, below, o) == SpendEntry(FetchCoin(cache, below, o), o)

\* Faulty Uncache: the flags are not looked at.
Uncache_AnyEntry(cache, o) == [cache EXCEPT ![o] = NoEntry]

\* Uncache: only an unmodified entry may leave the cache.
Uncache(cache, o) ==
    IF cache[o] # NoEntry /\ cache[o].flags = {}
    THEN [cache EXCEPT ![o] = NoEntry]
    ELSE cache

-----------------------------------------------------------------------------
(* Writing a child's map to its parent *)

\* BatchWrite's std::logic_error: a FRESH child entry meets an unspent coin.
BatchWriteThrows(parent, child) ==
    \E o \in OutPoint :
        /\ child[o] # NoEntry /\ Dirty(child[o]) /\ Fresh(child[o])
        /\ parent[o] # NoEntry /\ parent[o].coin # NoCoin

\* Faulty MergeEntry: a FRESH entry spent by the child stays in the parent.
MergeEntry_KeepsFresh(p, c) ==
    IF c = NoEntry \/ ~Dirty(c) THEN p
    ELSE IF p = NoEntry
         THEN IF Fresh(c) /\ c.coin = NoCoin THEN NoEntry
              ELSE [coin |-> c.coin, flags |-> {"DIRTY"} \cup (c.flags \cap {"FRESH"})]
    ELSE [coin |-> c.coin, flags |-> p.flags \cup {"DIRTY"}]

\* What becomes of the parent's entry p when the child's entry c is written.
MergeEntry(p, c) ==
    IF c = NoEntry \/ ~Dirty(c) THEN p
    ELSE IF p = NoEntry
         THEN IF Fresh(c) /\ c.coin = NoCoin THEN NoEntry
              ELSE [coin |-> c.coin, flags |-> {"DIRTY"} \cup (c.flags \cap {"FRESH"})]
    ELSE IF Fresh(p) /\ c.coin = NoCoin THEN NoEntry
    ELSE [coin |-> c.coin, flags |-> p.flags \cup {"DIRTY"}]

\* CCoinsViewCache::BatchWrite for the whole map (entries are independent).
BatchWrite(parent, child) ==
    [o \in OutPoint |-> MergeEntry(parent[o], child[o])]

\* CCoinsViewDB::BatchWrite on the coin records: DIRTY entries are written,
\* the spent ones erased.
WriteDirty(db, child) ==
    [o \in OutPoint |->
        IF child[o] # NoEntry /\ Dirty(child[o]) THEN child[o].coin ELSE db[o]]
=============================================================================
