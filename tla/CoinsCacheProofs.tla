-------------------------- MODULE CoinsCacheProofs --------------------------
(***************************************************************************)
(* Proofs about CoinsCache, for any set of outpoints, coins and hashes.    *)
(*                                                                         *)
(* The first part is about one cache over any parent (the operators of     *)
(* CoinsView); the second lifts it to the stack of two caches.             *)
(***************************************************************************)
EXTENDS CoinsCache, TLAPS

USE CoinsViewAssumption, HashAssumption

-----------------------------------------------------------------------------
(* One cache over any parent *)

\* FetchCoin keeps the flags sound and does not change what the cache answers.
LEMMA FetchCoinSound ==
    ASSUME NEW cache \in Cache, NEW below \in View, NEW o \in OutPoint,
           FlagsSound(cache, below)
    PROVE  /\ FetchCoin(cache, below, o) \in Cache
           /\ FlagsSound(FetchCoin(cache, below, o), below)
           /\ Through(FetchCoin(cache, below, o), below) = Through(cache, below)
  BY Zenon DEF FetchCoin, FlagsSound, Through, Cache, View, Entry, Flag, Dirty, Fresh

\* SpendCoin once its FetchCoin is done: c is the cache it works on.
LEMMA SpendEntrySound ==
    ASSUME NEW c \in Cache, NEW below \in View, NEW o \in OutPoint,
           FlagsSound(c, below),
           c[o] = NoEntry => below[o] = NoCoin
    PROVE  /\ SpendEntry(c, o) \in Cache
           /\ FlagsSound(SpendEntry(c, o), below)
           /\ Through(SpendEntry(c, o), below) = [Through(c, below) EXCEPT ![o] = NoCoin]
  <1> DEFINE s == SpendEntry(c, o)
  <1>1. s \in Cache
    BY Zenon DEF SpendEntry, Cache, Entry, Flag
  <1>2. /\ \A p \in OutPoint : p # o => s[p] = c[p]
        /\ s[o] = NoEntry => below[o] = NoCoin
        /\ s[o] # NoEntry => /\ s[o].coin = NoCoin
                             /\ Dirty(s[o])
                             /\ ~Fresh(s[o])
    BY DEF SpendEntry, Cache, Entry, Flag, FlagsSound, Dirty, Fresh
  <1> HIDE DEF s
  <1>3. FlagsSound(s, below)
    BY <1>2, Zenon DEF FlagsSound
  <1>4. Through(s, below) = [Through(c, below) EXCEPT ![o] = NoCoin]
    <2>1. \A p \in OutPoint : Through(s, below)[p]
                              = IF p = o THEN NoCoin ELSE Through(c, below)[p]
      BY <1>2, Zenon DEF Through
    <2>2. /\ Through(s, below) = [p \in OutPoint |-> Through(s, below)[p]]
          /\ Through(c, below) = [p \in OutPoint |-> Through(c, below)[p]]
      BY Zenon DEF Through
    <2> QED  BY <2>1, <2>2, Zenon
  <1> QED  BY <1>1, <1>3, <1>4, Zenon DEF s

\* SpendCoin keeps the flags sound and makes the outpoint spent, nothing else.
LEMMA SpendCoinSound ==
    ASSUME NEW cache \in Cache, NEW below \in View, NEW o \in OutPoint,
           FlagsSound(cache, below)
    PROVE  /\ SpendCoin(cache, below, o) \in Cache
           /\ FlagsSound(SpendCoin(cache, below, o), below)
           /\ Through(SpendCoin(cache, below, o), below)
                = [Through(cache, below) EXCEPT ![o] = NoCoin]
  <1> DEFINE c == FetchCoin(cache, below, o)
  <1>1. /\ c \in Cache
        /\ FlagsSound(c, below)
        /\ Through(c, below) = Through(cache, below)
    BY FetchCoinSound, Zenon
  <1>2. c[o] = NoEntry => below[o] = NoCoin
    BY DEF FetchCoin, Cache, View, Entry, Flag
  <1>3. SpendCoin(cache, below, o) = SpendEntry(c, o)
    BY Zenon DEF SpendCoin
  <1> HIDE DEF c
  <1> QED  BY <1>1, <1>2, <1>3, SpendEntrySound

\* AddCoin keeps the flags sound, provided the caller passes possible_overwrite
\* whenever the outpoint is unspent; the cache then answers the new coin.
LEMMA AddCoinSound ==
    ASSUME NEW cache \in Cache, NEW below \in View, NEW o \in OutPoint,
           NEW coin \in Coin, NEW ow \in BOOLEAN,
           FlagsSound(cache, below),
           ow \/ ~HaveCoin(cache, below, o)
    PROVE  /\ AddCoin(cache, o, coin, ow) \in Cache
           /\ FlagsSound(AddCoin(cache, o, coin, ow), below)
           /\ Through(AddCoin(cache, o, coin, ow), below)
                = IF coin \in Unspendable THEN Through(cache, below)
                  ELSE [Through(cache, below) EXCEPT ![o] = coin]
           /\ ~AddCoinThrows(cache, o, coin, ow)
  <1>1. CASE coin \in Unspendable
    BY <1>1, Zenon DEF AddCoin, AddCoinThrows
  <1>2. CASE coin \notin Unspendable
    <2> DEFINE a == AddCoin(cache, o, coin, ow)
    <2>1. /\ a \in Cache
          /\ a[o] # NoEntry
          /\ a[o].coin = coin
          /\ Dirty(a[o])
          /\ \A p \in OutPoint : p # o => a[p] = cache[p]
      BY <1>2 DEF AddCoin, Cache, Entry, Flag, Dirty
    <2>2. Fresh(a[o]) => below[o] = NoCoin
      <3>1. CASE cache[o] = NoEntry
        BY <1>2, <3>1, Zenon DEF AddCoin, HaveCoin, Through, Cache, Fresh
      <3>2. CASE cache[o] # NoEntry
        BY <1>2, <3>2, Zenon DEF AddCoin, HaveCoin, Through, FlagsSound, Cache, Dirty, Fresh
      <3> QED  BY <3>1, <3>2, Zenon
    <2>3. ~AddCoinThrows(cache, o, coin, ow)
      BY Zenon DEF AddCoinThrows, HaveCoin, Through
    <2> HIDE DEF a
    <2>4. FlagsSound(a, below)
      BY <2>1, <2>2, Zenon DEF FlagsSound
    <2>5. Through(a, below) = [Through(cache, below) EXCEPT ![o] = coin]
      BY <2>1, Zenon DEF Through
    <2> QED  BY <1>2, <2>1, <2>3, <2>4, <2>5, Zenon DEF a
  <1> QED  BY <1>1, <1>2, Zenon

\* Uncache keeps the flags sound and does not change what the cache answers.
LEMMA UncacheSound ==
    ASSUME NEW cache \in Cache, NEW below \in View, NEW o \in OutPoint,
           FlagsSound(cache, below)
    PROVE  /\ Uncache(cache, o) \in Cache
           /\ FlagsSound(Uncache(cache, o), below)
           /\ Through(Uncache(cache, o), below) = Through(cache, below)
  BY Zenon DEF Uncache, FlagsSound, Through, Cache, View, Entry, Flag, Dirty, Fresh

\* Writing a child with sound flags to its parent cache throws no error, keeps
\* the parent's flags sound, and makes the parent answer what the child did.
LEMMA BatchWriteSound ==
    ASSUME NEW parent \in Cache, NEW child \in Cache, NEW below \in View,
           FlagsSound(parent, below),
           FlagsSound(child, Through(parent, below))
    PROVE  /\ BatchWrite(parent, child) \in Cache
           /\ FlagsSound(BatchWrite(parent, child), below)
           /\ Through(BatchWrite(parent, child), below)
                = Through(child, Through(parent, below))
           /\ ~BatchWriteThrows(parent, child)
  <1>1. ASSUME NEW o \in OutPoint
        PROVE  MergeEntry(parent[o], child[o]) \in Entry \cup {NoEntry}
    BY Zenon DEF MergeEntry, Cache, Entry, Flag, Dirty, Fresh
  <1>2. BatchWrite(parent, child) \in Cache
    BY <1>1, Zenon DEF BatchWrite, Cache
  <1>3. FlagsSound(BatchWrite(parent, child), below)
    <2> SUFFICES ASSUME NEW o \in OutPoint,
                        NEW e, e = MergeEntry(parent[o], child[o]), e # NoEntry
                 PROVE  /\ ~Dirty(e) => e.coin # NoCoin /\ e.coin = below[o]
                        /\ Fresh(e) => Dirty(e) /\ e.coin # NoCoin /\ below[o] = NoCoin
      BY Zenon DEF FlagsSound, BatchWrite
    <2>1. CASE child[o] = NoEntry \/ ~Dirty(child[o])
      BY <2>1, Zenon DEF MergeEntry, FlagsSound
    <2>2. CASE child[o] # NoEntry /\ Dirty(child[o]) /\ parent[o] = NoEntry
      BY <2>2, Zenon DEF MergeEntry, FlagsSound, Through, Cache, Entry, Flag, Dirty, Fresh
    <2>3. CASE child[o] # NoEntry /\ Dirty(child[o]) /\ parent[o] # NoEntry
      BY <2>3, Zenon DEF MergeEntry, FlagsSound, Through, Cache, Entry, Flag, Dirty, Fresh
    <2> QED  BY <2>1, <2>2, <2>3, Zenon
  <1>4. Through(BatchWrite(parent, child), below) = Through(child, Through(parent, below))
    <2>1. ASSUME NEW o \in OutPoint
          PROVE  Through(BatchWrite(parent, child), below)[o]
                   = Through(child, Through(parent, below))[o]
      BY DEF BatchWrite, MergeEntry, FlagsSound, Through, Cache, View, Entry, Flag, Dirty, Fresh
    <2> QED  BY <2>1, Zenon DEF Through
  <1>5. ~BatchWriteThrows(parent, child)
    BY Zenon DEF BatchWriteThrows, FlagsSound, Through, Cache, Entry
  <1> QED  BY <1>2, <1>3, <1>4, <1>5, Zenon

\* Writing the DIRTY entries to the database makes it answer what the cache did.
LEMMA WriteDirtySound ==
    ASSUME NEW cache \in Cache, NEW below \in View, FlagsSound(cache, below)
    PROVE  WriteDirty(below, cache) = Through(cache, below)
  BY Zenon DEF WriteDirty, FlagsSound, Through

LEMMA ThroughType ==
    ASSUME NEW cache \in Cache, NEW below \in View
    PROVE  Through(cache, below) \in View
  BY Zenon DEF Through, Cache, View, Entry

\* An empty cache is sound and answers what its parent answers.
LEMMA EmptyCacheSound ==
    ASSUME NEW below \in View
    PROVE  /\ EmptyCache \in Cache
           /\ FlagsSound(EmptyCache, below)
           /\ Through(EmptyCache, below) = below
  BY Zenon DEF EmptyCache, Cache, FlagsSound, Through, View

-----------------------------------------------------------------------------
(* The stack *)

\* The inductive invariant: the flags of both caches are sound, no error was
\* thrown, and there are no upper entries while no block is being worked on.
IInv ==
    /\ TypeOK
    /\ CacheFlagsSound
    /\ NoLogicError
    /\ ~viewOpen => view = EmptyCache

LEMMA InitIInv == Init => IInv
  BY EmptyCacheSound, ThroughType, Zenon
  DEF Init, IInv, TypeOK, CacheFlagsSound, NoLogicError, TipCoins

\* Reads of the upper cache leave what the lower cache answers alone.
LEMMA FetchThroughTipSound ==
    ASSUME IInv, NEW o \in OutPoint, FetchThroughTip(o), UNCHANGED db
    PROVE  /\ tip' \in Cache
           /\ FlagsSound(tip', db')
           /\ TipCoins' = TipCoins
           /\ TipCoins \in View
  BY FetchCoinSound, ThroughType, Zenon
  DEF IInv, TypeOK, CacheFlagsSound, FetchThroughTip, TipCoins

\* Every step keeps the inductive invariant.
LEMMA StepIInv == IInv /\ [Next]_vars => IInv'
  <1> SUFFICES ASSUME IInv, [Next]_vars PROVE IInv'
    BY Zenon
  <1>0. /\ db \in View /\ tip \in Cache /\ view \in Cache
        /\ FlagsSound(tip, db) /\ FlagsSound(view, TipCoins)
        /\ TipCoins \in View
        /\ TipBestBlock \in Hash
    BY ThroughType, Zenon DEF IInv, TypeOK, CacheFlagsSound, TipCoins, TipBestBlock
  <1>1. CASE OpenView
    BY <1>0, <1>1, Zenon DEF OpenView, IInv, TypeOK, CacheFlagsSound, NoLogicError, TipCoins
  <1>2. ASSUME NEW o \in OutPoint, ViewAccess(o) PROVE IInv'
    <2>1. /\ view' \in Cache
          /\ FlagsSound(view', TipCoins)
      BY <1>0, <1>2, FetchCoinSound, Zenon DEF ViewAccess
    <2> QED  BY <1>2, <2>1, FetchThroughTipSound, Zenon
             DEF ViewAccess, IInv, TypeOK, CacheFlagsSound, NoLogicError
  <1>3. ASSUME NEW o \in OutPoint, ViewSpend(o) PROVE IInv'
    <2>1. /\ view' \in Cache
          /\ FlagsSound(view', TipCoins)
      BY <1>0, <1>3, SpendCoinSound, Zenon DEF ViewSpend
    <2> QED  BY <1>3, <2>1, FetchThroughTipSound
             DEF ViewSpend, IInv, TypeOK, CacheFlagsSound, NoLogicError
  <1>4. ASSUME NEW o \in OutPoint, NEW coin \in Coin, NEW fCoinbase \in BOOLEAN,
               ViewAddOutput(o, coin, fCoinbase)
        PROVE  IInv'
    <2>1. /\ view' \in Cache
          /\ FlagsSound(view', TipCoins)
          /\ thrown' = FALSE
      BY <1>0, <1>4, AddCoinSound DEF ViewAddOutput
    <2> QED  BY <1>0, <1>4, <2>1, Zenon
             DEF ViewAddOutput, IInv, TypeOK, CacheFlagsSound, NoLogicError, TipCoins
  <1>5. ASSUME NEW o \in OutPoint, NEW coin \in Coin \ Unspendable,
               ViewRestoreInput(o, coin)
        PROVE  IInv'
    <2> DEFINE v    == FetchCoin(view, TipCoins, o)
               have == HaveCoin(view, TipCoins, o)
    <2>1. /\ v \in Cache
          /\ FlagsSound(v, TipCoins)
          /\ have = HaveCoin(v, TipCoins, o)
          /\ have \in BOOLEAN
      BY <1>0, FetchCoinSound, Zenon DEF HaveCoin
    <2>2. /\ view' = AddCoin(v, o, coin, have)
          /\ thrown' = AddCoinThrows(v, o, coin, have)
      BY <1>5, Zenon DEF ViewRestoreInput
    <2> HIDE DEF v, have
    <2>3. /\ view' \in Cache
          /\ FlagsSound(view', TipCoins)
          /\ thrown' = FALSE
      BY <1>0, <2>1, <2>2, AddCoinSound
    <2> QED  BY <1>5, <2>3, FetchThroughTipSound, Zenon
             DEF ViewRestoreInput, IInv, TypeOK, CacheFlagsSound, NoLogicError
  <1>6. ASSUME NEW h \in Hash, FlushView(h) PROVE IInv'
    <2>1. /\ tip' \in Cache
          /\ FlagsSound(tip', db)
          /\ thrown' = FALSE
      BY <1>0, <1>6, BatchWriteSound DEF FlushView, TipCoins
    <2>2. TipCoins' \in View
      BY <1>0, <1>6, <2>1, ThroughType, Zenon DEF FlushView, TipCoins
    <2> QED  BY <1>6, <2>1, <2>2, EmptyCacheSound, Zenon
             DEF FlushView, IInv, TypeOK, CacheFlagsSound, NoLogicError
  <1>7. CASE DropView
    BY <1>0, <1>7, EmptyCacheSound, Zenon
    DEF DropView, IInv, TypeOK, CacheFlagsSound, NoLogicError, TipCoins
  <1>8. ASSUME NEW o \in OutPoint, TipAccess(o) PROVE IInv'
    <2>1. /\ tip' \in Cache
          /\ FlagsSound(tip', db)
          /\ TipCoins' = TipCoins
      BY <1>0, <1>8, FetchCoinSound, Zenon DEF TipAccess, TipCoins
    <2> QED  BY <1>0, <1>8, <2>1, Zenon
             DEF TipAccess, IInv, TypeOK, CacheFlagsSound, NoLogicError
  <1>9. ASSUME NEW o \in OutPoint, TipUncache(o) PROVE IInv'
    <2>1. /\ tip' \in Cache
          /\ FlagsSound(tip', db)
          /\ TipCoins' = TipCoins
      BY <1>0, <1>9, UncacheSound, Zenon DEF TipUncache, TipCoins
    <2> QED  BY <1>0, <1>9, <2>1, Zenon
             DEF TipUncache, IInv, TypeOK, CacheFlagsSound, NoLogicError
  <1>10. CASE FlushTip
    <2>1. db' = TipCoins
      BY <1>0, <1>10, WriteDirtySound, Zenon DEF FlushTip, TipCoins
    <2>2. /\ view = EmptyCache
          /\ view' = EmptyCache
          /\ tip' = EmptyCache
      BY <1>10, Zenon DEF FlushTip, IInv
    <2>3. TipCoins' \in View
      BY <1>0, <2>1, <2>2, EmptyCacheSound, Zenon DEF TipCoins
    <2> QED  BY <1>0, <1>10, <2>1, <2>2, <2>3, EmptyCacheSound, Zenon
             DEF FlushTip, IInv, TypeOK, CacheFlagsSound, NoLogicError
  <1>11. CASE UNCHANGED vars
    BY <1>11, Zenon DEF vars, IInv, TypeOK, CacheFlagsSound, NoLogicError, TipCoins
  <1> QED
    BY <1>1, <1>2, <1>3, <1>4, <1>5, <1>6, <1>7, <1>8, <1>9, <1>10, <1>11, Zenon DEF Next

\* The inductive invariant holds in every behaviour of the stack.
THEOREM Invariance == Spec => []IInv
  BY InitIInv, StepIInv, PTL DEF Spec

\* Every variable of the stack keeps its type.
THEOREM TypeCorrect == Spec => []TypeOK
  <1>1. IInv => TypeOK
    BY Zenon DEF IInv
  <1> QED  BY <1>1, Invariance, PTL

\* The flags of CoinsTip() and of the cache over it are sound at all times.
THEOREM FlagsAlwaysSound == Spec => []CacheFlagsSound
  <1>1. IInv => CacheFlagsSound
    BY Zenon DEF IInv
  <1> QED  BY <1>1, Invariance, PTL

\* AddCoin and BatchWrite never throw their logic errors.
THEOREM NeverThrows == Spec => []NoLogicError
  <1>1. IInv => NoLogicError
    BY Zenon DEF IInv
  <1> QED  BY <1>1, Invariance, PTL

-----------------------------------------------------------------------------
(* The stack of caches implements one transactional map *)

LEMMA InitRefines == Init => Store!Init
  <1> SUFFICES ASSUME Init PROVE Store!Init
    BY Zenon
  <1>1. TipCoins = db /\ ViewCoins = db
    BY EmptyCacheSound, Zenon DEF Init, TipCoins, ViewCoins
  <1> QED  BY <1>1, Zenon DEF Init, Store!Init, Store!Map, View, TipBestBlock

\* Each action is a step of the map, or invisible to it.
LEMMA StepRefines == IInv /\ [Next]_vars => [Store!Next]_(Store!vars)
  <1> SUFFICES ASSUME IInv, [Next]_vars PROVE [Store!Next]_(Store!vars)
    BY Zenon
  <1>0. /\ db \in View /\ tip \in Cache /\ view \in Cache
        /\ FlagsSound(tip, db) /\ FlagsSound(view, TipCoins)
        /\ TipCoins \in View /\ ViewCoins \in View
        /\ TipBestBlock \in Hash
    BY ThroughType, Zenon DEF IInv, TypeOK, CacheFlagsSound, TipCoins, ViewCoins, TipBestBlock
  <1>1. CASE OpenView
    <2>1. /\ TipCoins' = TipCoins /\ ViewCoins' = ViewCoins
          /\ TipBestBlock' = TipBestBlock
      BY <1>0, <1>1, Zenon DEF OpenView, TipCoins, ViewCoins, TipBestBlock
    <2>2. Store!Begin
      BY <1>1, <2>1, Zenon DEF OpenView, Store!Begin
    <2> QED  BY <2>2, Zenon DEF Store!Next
  <1>2. ASSUME NEW o \in OutPoint, ViewAccess(o) PROVE UNCHANGED Store!vars
    <2>1. TipCoins' = TipCoins
      BY <1>2, FetchThroughTipSound, Zenon DEF ViewAccess
    <2>2. ViewCoins' = ViewCoins
      BY <1>0, <1>2, <2>1, FetchCoinSound, Zenon DEF ViewAccess, ViewCoins
    <2> QED  BY <1>2, <2>1, <2>2, Zenon DEF ViewAccess, Store!vars, TipBestBlock
  <1>3. ASSUME NEW o \in OutPoint, ViewSpend(o) PROVE Store!Write(o, NoCoin)
    <2>1. TipCoins' = TipCoins
      BY <1>3, FetchThroughTipSound DEF ViewSpend
    <2>2. ViewCoins' = [ViewCoins EXCEPT ![o] = NoCoin]
      BY <1>0, <1>3, <2>1, SpendCoinSound, Zenon DEF ViewSpend, ViewCoins
    <2> QED  BY <1>3, <2>1, <2>2, Zenon DEF ViewSpend, Store!Write, TipBestBlock
  <1>4. ASSUME NEW o \in OutPoint, NEW coin \in Coin, NEW fCoinbase \in BOOLEAN,
               ViewAddOutput(o, coin, fCoinbase)
        PROVE  Store!Write(o, coin) \/ UNCHANGED Store!vars
    <2>1. TipCoins' = TipCoins /\ TipBestBlock' = TipBestBlock
      BY <1>4, Zenon DEF ViewAddOutput, TipCoins, TipBestBlock
    <2>2. ViewCoins' = IF coin \in Unspendable THEN ViewCoins
                       ELSE [ViewCoins EXCEPT ![o] = coin]
      BY <1>0, <1>4, <2>1, AddCoinSound DEF ViewAddOutput, ViewCoins
    <2> QED  BY <1>4, <2>1, <2>2, Zenon DEF ViewAddOutput, Store!Write, Store!vars
  <1>5. ASSUME NEW o \in OutPoint, NEW coin \in Coin \ Unspendable,
               ViewRestoreInput(o, coin)
        PROVE  Store!Write(o, coin)
    <2> DEFINE v    == FetchCoin(view, TipCoins, o)
               have == HaveCoin(view, TipCoins, o)
    <2>1. TipCoins' = TipCoins
      BY <1>5, FetchThroughTipSound, Zenon DEF ViewRestoreInput
    <2>2. /\ v \in Cache
          /\ FlagsSound(v, TipCoins)
          /\ Through(v, TipCoins) = ViewCoins
          /\ have = HaveCoin(v, TipCoins, o)
          /\ have \in BOOLEAN
      BY <1>0, FetchCoinSound, Zenon DEF HaveCoin, ViewCoins
    <2>3. view' = AddCoin(v, o, coin, have)
      BY <1>5, Zenon DEF ViewRestoreInput
    <2>4. ViewCoins' = [ViewCoins EXCEPT ![o] = coin]
      <3> HIDE DEF v, have
      <3> QED  BY <1>0, <2>1, <2>2, <2>3, AddCoinSound DEF ViewCoins
    <2> QED  BY <1>5, <2>1, <2>4, Zenon DEF ViewRestoreInput, Store!Write, TipBestBlock
  <1>6. ASSUME NEW h \in Hash, FlushView(h) PROVE Store!Commit(h)
    <2>1. TipCoins' = ViewCoins
      BY <1>0, <1>6, BatchWriteSound, Zenon DEF FlushView, TipCoins, ViewCoins
    <2>2. ViewCoins' = ViewCoins
      BY <1>0, <1>6, <2>1, EmptyCacheSound, Zenon DEF FlushView, ViewCoins
    <2>3. TipBestBlock' = h
      BY <1>6, Zenon DEF FlushView, TipBestBlock
    <2> QED  BY <1>6, <2>1, <2>2, <2>3, Zenon DEF FlushView, Store!Commit
  <1>7. CASE DropView
    <2>1. TipCoins' = TipCoins /\ TipBestBlock' = TipBestBlock
      BY <1>7, Zenon DEF DropView, TipCoins, TipBestBlock
    <2>2. ViewCoins' = TipCoins
      BY <1>0, <1>7, <2>1, EmptyCacheSound, Zenon DEF DropView, ViewCoins
    <2>3. Store!Abort
      BY <1>7, <2>1, <2>2, Zenon DEF DropView, Store!Abort
    <2> QED  BY <2>3, Zenon DEF Store!Next
  <1>8. ASSUME NEW o \in OutPoint, TipAccess(o) PROVE UNCHANGED Store!vars
    <2>1. TipCoins' = TipCoins
      BY <1>0, <1>8, FetchCoinSound, Zenon DEF TipAccess, TipCoins
    <2> QED  BY <1>8, <2>1, Zenon DEF TipAccess, Store!vars, ViewCoins, TipBestBlock
  <1>9. ASSUME NEW o \in OutPoint, TipUncache(o) PROVE UNCHANGED Store!vars
    <2>1. TipCoins' = TipCoins
      BY <1>0, <1>9, UncacheSound, Zenon DEF TipUncache, TipCoins
    <2> QED  BY <1>9, <2>1, Zenon DEF TipUncache, Store!vars, ViewCoins, TipBestBlock
  <1>10. CASE FlushTip
    <2>1. db' = TipCoins
      BY <1>0, <1>10, WriteDirtySound, Zenon DEF FlushTip, TipCoins
    <2>2. TipCoins' = TipCoins
      BY <1>0, <1>10, <2>1, EmptyCacheSound, Zenon DEF FlushTip, TipCoins
    <2>3. ViewCoins' = ViewCoins
      BY <1>10, <2>2, Zenon DEF FlushTip, ViewCoins
    <2>4. TipBestBlock' = TipBestBlock
      BY <1>0, <1>10, Zenon DEF FlushTip, TipBestBlock
    <2>5. Store!Persist
      BY <1>10, <2>1, <2>2, <2>3, <2>4, Zenon DEF FlushTip, Store!Persist
    <2> QED  BY <2>5, Zenon DEF Store!Next
  <1>11. CASE UNCHANGED vars
    BY <1>11, Zenon DEF vars, Store!vars, TipCoins, ViewCoins, TipBestBlock
  <1>12. ASSUME NEW o \in OutPoint, NEW c \in Coin \cup {NoCoin}, Store!Write(o, c)
         PROVE  Store!Next
    BY <1>12, Zenon DEF Store!Next
  <1>13. ASSUME NEW h \in Hash, Store!Commit(h) PROVE Store!Next
    BY <1>13, Zenon DEF Store!Next
  <1> QED
    BY <1>1, <1>2, <1>3, <1>4, <1>5, <1>6, <1>7, <1>8, <1>9, <1>10, <1>11, <1>12, <1>13, Zenon
    DEF Next

\* Connecting and disconnecting blocks through the caches, and flushing them,
\* is indistinguishable from transactions on one map of unspent coins.
THEOREM Refinement == Spec => ImplementsStore
  BY InitRefines, StepRefines, Invariance, PTL DEF Spec, ImplementsStore, Store!Spec
=============================================================================
