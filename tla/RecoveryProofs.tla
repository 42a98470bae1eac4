--------------------------- MODULE RecoveryProofs ---------------------------
(***************************************************************************)
(* That the coins survive a crash, on any tree of valid blocks and any set *)
(* of outpoints: the coins of a node that runs are those of its best       *)
(* block, and a database that names a best block holds that block's coins. *)
(*                                                                         *)
(* A half-written database has, at each outpoint, the coin of the old tip  *)
(* or that of the new one.  Undoing the old branch and rolling forward the *)
(* new one sets every outpoint that a block of either touches to what it   *)
(* should be, whatever it was before, and the others are the same for both *)
(* tips.                                                                   *)
(***************************************************************************)
EXTENDS Recovery, AncestryProofs, WellFoundedInduction

-----------------------------------------------------------------------------
(* Induction and recursion along an interval *)

LEMMA LeastOf ==
    ASSUME NEW T \in SUBSET Nat, T # {}
    PROVE  \E i \in T : \A j \in T : i <= j
  <1>1. PICK i \in T : \A j \in T : ~(<<j, i>> \in OpToRel(<, Nat))
    BY NatLessThanWellFounded, WFMin, Zenon
  <1>2. \A j \in T : ~(j < i)
    BY <1>1, Zenon DEF OpToRel
  <1> QED  BY <1>2

LEMMA CountingUp ==
    ASSUME NEW lo \in Nat, NEW hi \in Nat, NEW S,
           lo \in S, \A k \in (lo + 1)..hi : k - 1 \in S => k \in S
    PROVE  \A k \in lo..hi : k \in S
  <1> SUFFICES ASSUME NEW k \in lo..hi, k \notin S PROVE FALSE
    BY Zenon
  <1> DEFINE T == {j \in lo..hi : j \notin S}
  <1>0. T \in SUBSET Nat /\ T # {}
    OBVIOUS
  <1>1. PICK i \in T : \A j \in T : i <= j
    <2> HIDE DEF T
    <2> QED  BY <1>0, LeastOf, Zenon
  <1>2. i \in (lo + 1)..hi /\ i - 1 \in lo..hi /\ i - 1 \notin T
    BY <1>1
  <1> QED  BY <1>1, <1>2, Zenon

LEMMA CountingDown ==
    ASSUME NEW lo \in Nat, NEW hi \in Nat, NEW S,
           hi \in S, \A k \in lo..(hi - 1) : k + 1 \in S => k \in S
    PROVE  \A k \in lo..hi : k \in S
  <1> SUFFICES ASSUME NEW k \in lo..hi PROVE k \in S
    BY Zenon
  <1> DEFINE T == {j \in 0..(hi - lo) : hi - j \in S}
  <1>1. 0 \in T /\ hi - lo \in Nat
    OBVIOUS
  <1>2. ASSUME NEW j \in (0 + 1)..(hi - lo), j - 1 \in T PROVE j \in T
    <2>1. hi - j \in lo..(hi - 1) /\ (hi - j) + 1 = hi - (j - 1)
      OBVIOUS
    <2> QED  BY <1>2, <2>1
  <1> HIDE DEF T
  <1>3. \A j \in 0..(hi - lo) : j \in T
    BY <1>1, <1>2, CountingUp, Zenon
  <1>4. hi - k \in 0..(hi - lo) /\ hi - (hi - k) = k
    OBVIOUS
  <1> QED  BY <1>3, <1>4 DEF T

\* f has the value v at one end, and at k the value that F makes of its neighbour's.
Climbs(f, lo, hi, v, F) ==
    f[lo] = v /\ \A k \in (lo + 1)..hi : f[k] = F[<<k, f[k - 1]>>]

Descends(f, lo, hi, v, F) ==
    f[hi] = v /\ \A k \in lo..(hi - 1) : f[k] = F[<<k, f[k + 1]>>]

LEMMA UpExists ==
    ASSUME NEW lo \in Nat, NEW hi \in Nat, lo <= hi,
           NEW V, NEW v \in V, NEW F \in [((lo + 1)..hi) \X V -> V]
    PROVE  \E f \in [lo..hi -> V] : Climbs(f, lo, hi, v, F)
  <1> DEFINE S == {m \in lo..hi : \E f \in [lo..m -> V] : Climbs(f, lo, m, v, F)}
  <1>1. lo \in S
    <2> DEFINE f == [k \in lo..lo |-> v]
    <2>1. f \in [lo..lo -> V] /\ Climbs(f, lo, lo, v, F)
      BY DEF Climbs
    <2> HIDE DEF f
    <2> QED  BY <2>1
  <1>2. ASSUME NEW m \in (lo + 1)..hi, m - 1 \in S PROVE m \in S
    <2>1. PICK f \in [lo..(m - 1) -> V] : Climbs(f, lo, m - 1, v, F)
      BY <1>2, Zenon
    <2> DEFINE g == [k \in lo..m |-> IF k = m THEN F[<<m, f[m - 1]>>] ELSE f[k]]
    <2>2. f[m - 1] \in V /\ <<m, f[m - 1]>> \in ((lo + 1)..hi) \X V
      OBVIOUS
    <2>3. g \in [lo..m -> V]
      BY <2>2
    <2>4. g[lo] = v
      BY <2>1 DEF Climbs
    <2>5. ASSUME NEW k \in (lo + 1)..m PROVE g[k] = F[<<k, g[k - 1]>>]
      <3>1. CASE k = m
        <4>1. m \in lo..m /\ m - 1 \in lo..m /\ m - 1 # m
          OBVIOUS
        <4>2. g[m] = F[<<m, f[m - 1]>>] /\ g[m - 1] = f[m - 1]
          BY <4>1, Zenon
        <4> QED  BY <3>1, <4>2, Zenon
      <3>2. CASE k # m
        <4>1. k \in (lo + 1)..(m - 1) /\ k - 1 \in lo..m /\ k - 1 # m
          BY <3>2
        <4> QED  BY <2>1, <3>2, <4>1 DEF Climbs
      <3> QED  BY <3>1, <3>2, Zenon
    <2> HIDE DEF g
    <2>6. Climbs(g, lo, m, v, F)
      BY <2>4, <2>5, Zenon DEF Climbs
    <2> QED  BY <2>3, <2>6
  <1> HIDE DEF S
  <1>3. hi \in lo..hi
    OBVIOUS
  <1>4. hi \in S
    BY <1>1, <1>2, <1>3, CountingUp, Zenon
  <1> QED  BY <1>4, Zenon DEF S

LEMMA DownExists ==
    ASSUME NEW lo \in Nat, NEW hi \in Nat, lo <= hi,
           NEW V, NEW v \in V, NEW F \in [(lo..(hi - 1)) \X V -> V]
    PROVE  \E f \in [lo..hi -> V] : Descends(f, lo, hi, v, F)
  <1> DEFINE S == {m \in lo..hi : \E f \in [m..hi -> V] : Descends(f, m, hi, v, F)}
  <1>1. hi \in S
    <2> DEFINE f == [k \in hi..hi |-> v]
    <2>1. f \in [hi..hi -> V] /\ Descends(f, hi, hi, v, F)
      BY DEF Descends
    <2> HIDE DEF f
    <2> QED  BY <2>1
  <1>2. ASSUME NEW m \in lo..(hi - 1), m + 1 \in S PROVE m \in S
    <2>1. PICK f \in [(m + 1)..hi -> V] : Descends(f, m + 1, hi, v, F)
      BY <1>2, Zenon
    <2> DEFINE g == [k \in m..hi |-> IF k = m THEN F[<<m, f[m + 1]>>] ELSE f[k]]
    <2>2. f[m + 1] \in V /\ <<m, f[m + 1]>> \in (lo..(hi - 1)) \X V
      OBVIOUS
    <2>3. g \in [m..hi -> V]
      BY <2>2
    <2>4. g[hi] = v
      BY <2>1 DEF Descends
    <2>5. ASSUME NEW k \in m..(hi - 1) PROVE g[k] = F[<<k, g[k + 1]>>]
      <3>1. CASE k = m
        <4>1. m \in m..hi /\ m + 1 \in m..hi /\ m + 1 # m
          OBVIOUS
        <4>2. g[m] = F[<<m, f[m + 1]>>] /\ g[m + 1] = f[m + 1]
          BY <4>1, Zenon
        <4> QED  BY <3>1, <4>2, Zenon
      <3>2. CASE k # m
        <4>1. k \in (m + 1)..(hi - 1) /\ k + 1 \in m..hi /\ k + 1 # m
          BY <3>2
        <4> QED  BY <2>1, <3>2, <4>1 DEF Descends
      <3> QED  BY <3>1, <3>2, Zenon
    <2> HIDE DEF g
    <2>6. Descends(g, m, hi, v, F)
      BY <2>4, <2>5, Zenon DEF Descends
    <2> QED  BY <2>3, <2>6
  <1> HIDE DEF S
  <1>3. lo \in lo..hi
    OBVIOUS
  <1>4. lo \in S
    BY <1>1, <1>2, <1>3, CountingDown, Zenon
  <1> QED  BY <1>4, Zenon DEF S

-----------------------------------------------------------------------------
(* One outpoint of a cache *)

Coins == Coin \cup {NoCoin}
Slot  == Entry \cup {NoEntry}

\* The coin that a cache with entry e answers over a view with coin v.
Seen(e, v) == IF e # NoEntry THEN e.coin ELSE v

\* The flags of the entry are true of the view below.
SoundAt(e, v) ==
    e # NoEntry => /\ Fresh(e) => v = NoCoin
                   /\ ~Dirty(e) => e.coin = v

LEMMA EntryParts ==
    /\ NoEntry \notin Entry
    /\ \A c \in Coins, f \in SUBSET Flag :
           /\ [coin |-> c, flags |-> f] \in Entry
           /\ [coin |-> c, flags |-> f] # NoEntry
           /\ [coin |-> c, flags |-> f].coin = c /\ [coin |-> c, flags |-> f].flags = f
    /\ \A e \in Entry : e.coin \in Coins /\ e.flags \in SUBSET Flag /\ e # NoEntry
  BY CoinsViewAssumption DEF Entry, Coins

LEMMA FetchAt ==
    ASSUME NEW c \in Cache, NEW below \in View, NEW o \in OutPoint
    PROVE  LET e == FetchCoin(c, below, o)[o]
           IN /\ FetchCoin(c, below, o) \in Cache
              /\ \A p \in OutPoint \ {o} : FetchCoin(c, below, o)[p] = c[p]
              /\ e \in Slot /\ (e = NoEntry => below[o] = NoCoin)
              /\ Seen(e, below[o]) = Seen(c[o], below[o])
              /\ SoundAt(c[o], below[o]) => SoundAt(e, below[o])
  <1>1. c[o] \in Slot /\ below[o] \in Coins
    BY Zenon DEF Cache, View, Slot, Coins
  <1>2. CASE c[o] = NoEntry /\ below[o] # NoCoin
    <2> DEFINE e == [coin |-> below[o], flags |-> {}]
    <2>1. e \in Entry /\ e # NoEntry /\ e.coin = below[o] /\ e.flags = {}
      BY <1>1, EntryParts, Zenon
    <2> HIDE DEF e
    <2>2. FetchCoin(c, below, o) = [c EXCEPT ![o] = e]
      BY <1>2, Zenon DEF FetchCoin, e
    <2> QED  BY <1>2, <2>1, <2>2, Zenon DEF Cache, Slot, Seen, SoundAt, Fresh, Dirty
  <1>3. CASE ~(c[o] = NoEntry /\ below[o] # NoCoin)
    <2>1. FetchCoin(c, below, o) = c
      BY <1>3, Zenon DEF FetchCoin
    <2> QED  BY <1>1, <1>3, <2>1, Zenon
  <1> QED  BY <1>2, <1>3, Zenon

LEMMA SpendAt ==
    ASSUME NEW c \in Cache, NEW below \in View, NEW o \in OutPoint
    PROVE  LET e == SpendCoin(c, below, o)[o]
           IN /\ e \in Slot
              /\ SoundAt(c[o], below[o]) =>
                    SoundAt(e, below[o]) /\ Seen(e, below[o]) = NoCoin
  <1> DEFINE f == FetchCoin(c, below, o)
             e == SpendCoin(c, below, o)[o]
  <1>1. f \in Cache /\ f[o] \in Slot /\ (f[o] = NoEntry => below[o] = NoCoin)
        /\ (SoundAt(c[o], below[o]) => SoundAt(f[o], below[o]))
    BY FetchAt, Zenon
  <1>2. SpendCoin(c, below, o) = SpendEntry(f, o)
    BY Zenon DEF SpendCoin
  <1> HIDE DEF f
  <1>3. CASE f[o] = NoEntry
    BY <1>1, <1>2, <1>3, Zenon DEF SpendEntry, Slot, SoundAt, Seen
  <1>4. CASE f[o] # NoEntry /\ Fresh(f[o])
    <2>1. e = NoEntry
      BY <1>1, <1>2, <1>4, Zenon DEF SpendEntry, Cache
    <2> QED  BY <1>1, <1>4, <2>1, Zenon DEF Slot, SoundAt, Seen
  <1>5. CASE f[o] # NoEntry /\ ~Fresh(f[o])
    <2> DEFINE d == [coin |-> NoCoin, flags |-> f[o].flags \cup {"DIRTY"}]
    <2>1. f[o] \in Entry /\ f[o].flags \cup {"DIRTY"} \in SUBSET Flag
      BY <1>1, <1>5, EntryParts, Zenon DEF Slot, Flag
    <2>2. d \in Entry /\ d # NoEntry /\ d.coin = NoCoin /\ d.flags = f[o].flags \cup {"DIRTY"}
      BY <2>1, EntryParts, Zenon DEF Coins
    <2>3. e = d
      BY <1>1, <1>2, <1>5, Zenon DEF SpendEntry, Cache
    <2> HIDE DEF d, e
    <2>4. SoundAt(d, below[o])
      BY <1>5, <2>2, Zenon DEF SoundAt, Fresh, Dirty
    <2> QED  BY <2>2, <2>3, <2>4, Zenon DEF Slot, Seen, e
  <1> QED  BY <1>3, <1>4, <1>5, Zenon

LEMMA AddAt ==
    ASSUME NEW c \in Cache, NEW below \in View, NEW o \in OutPoint, NEW coin \in Coins,
           NEW overwrite \in BOOLEAN
    PROVE  LET e == AddCoin(c, o, coin, overwrite)[o]
           IN /\ e \in Entry /\ e # NoEntry /\ e.coin = coin
              /\ SoundAt(c[o], below[o])
                    /\ (~overwrite => Seen(c[o], below[o]) = NoCoin)
                        => SoundAt(e, below[o])
  <1> DEFINE old   == IF c[o] = NoEntry THEN {} ELSE c[o].flags
             fresh == IF ~overwrite /\ "DIRTY" \notin old THEN {"FRESH"} ELSE {}
             e     == [coin |-> coin, flags |-> old \cup {"DIRTY"} \cup fresh]
  <1>1. c[o] \in Slot
    BY Zenon DEF Cache, Slot
  <1>2. old \in SUBSET Flag
    BY <1>1, EntryParts, Zenon DEF Slot
  <1>3. old \cup {"DIRTY"} \cup fresh \in SUBSET Flag
    BY <1>2, Zenon DEF Flag
  <1>4. e \in Entry /\ e # NoEntry /\ e.coin = coin /\ e.flags = old \cup {"DIRTY"} \cup fresh
    BY <1>3, EntryParts, Zenon
  <1>5. AddCoin(c, o, coin, overwrite)[o] = e
    BY VtxAssumption, Zenon DEF AddCoin, Cache
  <1>6. ASSUME SoundAt(c[o], below[o]), ~overwrite => Seen(c[o], below[o]) = NoCoin
        PROVE  SoundAt(e, below[o])
    <2>1. "FRESH" \in old => below[o] = NoCoin
      BY <1>6, Zenon DEF SoundAt, Fresh
    <2>2. "FRESH" \in fresh => below[o] = NoCoin
      BY <1>6, Zenon DEF SoundAt, Dirty, Seen
    <2> HIDE DEF e, old, fresh
    <2> QED  BY <1>4, <2>1, <2>2, Zenon DEF SoundAt, Fresh, Dirty
  <1> HIDE DEF e
  <1> QED  BY <1>4, <1>5, <1>6, Zenon

-----------------------------------------------------------------------------
(* One transaction on a cache *)

\* The flags of a whole cache.
Sound(c, below) == \A o \in OutPoint : SoundAt(c[o], below[o])

Tx == [coinbase : BOOLEAN, ins : SUBSET OutPoint, outs : SUBSET OutPoint]

LEMMA ThroughAt ==
    ASSUME NEW c \in Cache, NEW below \in View
    PROVE  /\ Through(c, below) \in View
           /\ \A o \in OutPoint : Through(c, below)[o] = Seen(c[o], below[o])
  <1>1. ASSUME NEW o \in OutPoint PROVE Seen(c[o], below[o]) \in Coins
    BY EntryParts DEF Cache, View, Seen, Coins
  <1>2. Through(c, below) = [o \in OutPoint |-> Seen(c[o], below[o])]
    BY Zenon DEF Through, Seen
  <1> QED  BY <1>1, <1>2, Zenon DEF View, Coins

\* Over below, d answers like c, but with v at the outpoints of X; its flags are sound.
Becomes(d, c, below, X, v) ==
    /\ Sound(d, below)
    /\ \A o \in OutPoint : Through(d, below)[o] = IF o \in X THEN v ELSE Through(c, below)[o]

LEMMA SpendAllOK ==
    ASSUME NEW c \in Cache, NEW below \in View, NEW X \in SUBSET OutPoint
    PROVE  /\ SpendAll(c, below, X) \in Cache
           /\ Sound(c, below) => Becomes(SpendAll(c, below, X), c, below, X, NoCoin)
  <1> DEFINE d == SpendAll(c, below, X)
  <1>1. \A o \in OutPoint : d[o] = IF o \in X THEN SpendCoin(c, below, o)[o] ELSE c[o]
    BY Zenon DEF SpendAll
  <1>2. \A o \in OutPoint : d[o] \in Slot
    BY <1>1, SpendAt, Zenon DEF Cache, Slot
  <1>3. d = [o \in OutPoint |-> d[o]]
    BY Zenon DEF SpendAll
  <1> HIDE DEF d
  <1>4. d \in Cache
    BY <1>2, <1>3, Zenon DEF Cache, Slot
  <1>5. ASSUME Sound(c, below), NEW o \in OutPoint
        PROVE  /\ SoundAt(d[o], below[o])
               /\ Seen(d[o], below[o]) = IF o \in X THEN NoCoin ELSE Seen(c[o], below[o])
    BY <1>1, <1>5, SpendAt, Zenon DEF Sound
  <1>6. \A o \in OutPoint : /\ Through(d, below)[o] = Seen(d[o], below[o])
                            /\ Through(c, below)[o] = Seen(c[o], below[o])
    BY <1>4, ThroughAt, Zenon
  <1>7. Sound(c, below) => Becomes(d, c, below, X, NoCoin)
    BY <1>5, <1>6, Zenon DEF Sound, Becomes
  <1> QED  BY <1>4, <1>7, Zenon DEF d

\* Both ways to add the outputs; a connected block vouches for them.
LEMMA AddCoinsOK ==
    ASSUME NEW c \in Cache, NEW below \in View, NEW tx \in Tx, NEW h \in Coin,
           NEW check \in BOOLEAN
    PROVE  /\ AddCoins(c, below, tx, h, check) \in Cache
           /\ Sound(c, below)
                 /\ (~check => \A o \in tx.outs : Through(c, below)[o] = NoCoin)
                     => Becomes(AddCoins(c, below, tx, h, check), c, below, tx.outs, h)
  <1> DEFINE overwrite(o) == IF check THEN HaveCoin(c, below, o) ELSE tx.coinbase
             fetched(o)   == IF check THEN FetchCoin(c, below, o) ELSE c
             d            == AddCoins(c, below, tx, h, check)
  <1>1. /\ d = [o \in OutPoint |-> d[o]]
        /\ \A o \in OutPoint : d[o] =
              IF o \in tx.outs THEN AddCoin(fetched(o), o, h, overwrite(o))[o] ELSE c[o]
    BY Zenon DEF AddCoins
  <1>2. tx.outs \in SUBSET OutPoint /\ tx.coinbase \in BOOLEAN /\ h \in Coins
    BY Zenon DEF Tx, Coins
  <1>3. ASSUME NEW o \in OutPoint
        PROVE  /\ overwrite(o) \in BOOLEAN /\ fetched(o) \in Cache
               /\ Seen(fetched(o)[o], below[o]) = Seen(c[o], below[o])
               /\ SoundAt(c[o], below[o]) => SoundAt(fetched(o)[o], below[o])
               /\ check /\ ~overwrite(o) => Seen(c[o], below[o]) = NoCoin
    BY <1>2, FetchAt, ThroughAt, Zenon DEF HaveCoin
  <1> HIDE DEF d, overwrite, fetched
  <1>4. ASSUME NEW o \in OutPoint
        PROVE  /\ d[o] \in Slot
               /\ SoundAt(c[o], below[o])
                     /\ (~check /\ o \in tx.outs => Seen(c[o], below[o]) = NoCoin) =>
                     /\ SoundAt(d[o], below[o])
                     /\ Seen(d[o], below[o]) = IF o \in tx.outs THEN h ELSE Seen(c[o], below[o])
    <2>1. CASE o \notin tx.outs
      BY <1>1, <2>1, Zenon DEF Cache, Slot
    <2>2. CASE o \in tx.outs
      <3> DEFINE e == AddCoin(fetched(o), o, h, overwrite(o))[o]
      <3>1. /\ e \in Entry /\ e # NoEntry /\ e.coin = h
            /\ SoundAt(fetched(o)[o], below[o])
                  /\ (~overwrite(o) => Seen(fetched(o)[o], below[o]) = NoCoin)
                      => SoundAt(e, below[o])
        BY <1>2, <1>3, AddAt
      <3>2. d[o] = e
        BY <1>1, <2>2, Zenon
      <3> HIDE DEF e
      <3> QED  BY <1>3, <2>2, <3>1, <3>2, Zenon DEF Slot, Seen
    <2> QED  BY <2>1, <2>2, Zenon
  <1>5. d \in Cache
    BY <1>1, <1>4, Zenon DEF Cache, Slot
  <1>6. \A o \in OutPoint : /\ Through(d, below)[o] = Seen(d[o], below[o])
                            /\ Through(c, below)[o] = Seen(c[o], below[o])
    BY <1>5, ThroughAt, Zenon
  <1>7. ASSUME Sound(c, below), ~check => \A o \in tx.outs : Through(c, below)[o] = NoCoin
        PROVE  Becomes(d, c, below, tx.outs, h)
    <2>1. ASSUME NEW o \in OutPoint
          PROVE  /\ SoundAt(c[o], below[o])
                 /\ ~check /\ o \in tx.outs => Seen(c[o], below[o]) = NoCoin
      BY <1>6, <1>7, Zenon DEF Sound
    <2>2. ASSUME NEW o \in OutPoint
          PROVE  /\ SoundAt(d[o], below[o])
                 /\ Seen(d[o], below[o]) = IF o \in tx.outs THEN h ELSE Seen(c[o], below[o])
      BY <1>4, <2>1, Zenon
    <2> QED  BY <1>6, <2>2, Zenon DEF Sound, Becomes
  <1> QED  BY <1>5, <1>7, Zenon DEF d

LEMMA AddVouched ==
    ASSUME NEW c \in Cache, NEW below \in View, NEW tx \in Tx, NEW h \in Coin
    PROVE  /\ AddCoins(c, below, tx, h, FALSE) \in Cache
           /\ Sound(c, below) /\ (\A o \in tx.outs : Through(c, below)[o] = NoCoin)
                 => Becomes(AddCoins(c, below, tx, h, FALSE), c, below, tx.outs, h)
  BY AddCoinsOK, FALSE \in BOOLEAN, Zenon

LEMMA AddChecked ==
    ASSUME NEW c \in Cache, NEW below \in View, NEW tx \in Tx, NEW h \in Coin
    PROVE  /\ AddCoins(c, below, tx, h, TRUE) \in Cache
           /\ Sound(c, below) => Becomes(AddCoins(c, below, tx, h, TRUE), c, below, tx.outs, h)
  BY AddCoinsOK, TRUE \in BOOLEAN, Zenon

LEMMA TxOnMapAt ==
    ASSUME NEW m \in View, NEW tx \in Tx, NEW h \in Coin
    PROVE  /\ TxOnMap(m, tx, h) \in View
           /\ \A o \in OutPoint : TxOnMap(m, tx, h)[o] =
                  IF o \in tx.outs THEN h ELSE IF o \in tx.ins THEN NoCoin ELSE m[o]
  BY Zenon DEF TxOnMap, View

LEMMA SameView ==
    ASSUME NEW m \in View, NEW n \in View, \A o \in OutPoint : m[o] = n[o]
    PROVE  m = n
  BY DEF View

Connecting == [cache : Cache, undo : View]

LEMMA UpdateStep ==
    ASSUME NEW s \in Connecting, NEW below \in View, NEW tx \in Tx, NEW h \in Coin
    PROVE  LET r == UpdateCoins(s, below, tx, h)
               m == Through(s.cache, below)
           IN /\ r \in Connecting
              /\ \A o \in OutPoint : r.undo[o] = IF o \in tx.ins THEN m[o] ELSE s.undo[o]
              /\ Sound(s.cache, below) /\ (\A o \in tx.outs : m[o] = NoCoin) =>
                    /\ Sound(r.cache, below)
                    /\ Through(r.cache, below) = TxOnMap(m, tx, h)
  <1> DEFINE r == UpdateCoins(s, below, tx, h)
             c == s.cache
             m == Through(c, below)
             d == SpendAll(c, below, tx.ins)
             e == AddCoins(d, below, tx, h, FALSE)
             u == [o \in OutPoint |-> IF o \in tx.ins THEN m[o] ELSE s.undo[o]]
  <1>1. c \in Cache /\ s.undo \in View /\ tx.ins \in SUBSET OutPoint /\ tx.outs \in SUBSET OutPoint
    BY Zenon DEF Connecting, Tx
  <1>2. r = [cache |-> e, undo |-> u]
    BY Zenon DEF UpdateCoins
  <1> HIDE DEF c
  <1>3. m \in View
    BY <1>1, ThroughAt, Zenon
  <1> HIDE DEF m
  <1>4. d \in Cache
    BY <1>1, SpendAllOK, Zenon
  <1>5. Sound(c, below) => Becomes(d, c, below, tx.ins, NoCoin)
    BY <1>1, SpendAllOK, Zenon
  <1> HIDE DEF d
  <1>6. e \in Cache
    BY <1>4, AddVouched, Zenon
  <1>7. Sound(d, below) /\ (\A o \in tx.outs : Through(d, below)[o] = NoCoin)
            => Becomes(e, d, below, tx.outs, h)
    BY <1>4, AddVouched, Zenon
  <1> HIDE DEF e
  <1>8. u \in View
    BY <1>1, <1>3, Zenon DEF View
  <1>9. r \in Connecting /\ r.cache = e /\ r.undo = u
    BY <1>2, <1>6, <1>8 DEF Connecting
  <1>10. ASSUME Sound(c, below), \A o \in tx.outs : m[o] = NoCoin
         PROVE  Sound(e, below) /\ Through(e, below) = TxOnMap(m, tx, h)
    <2>1. /\ Sound(d, below)
          /\ \A o \in OutPoint : Through(d, below)[o] = IF o \in tx.ins THEN NoCoin ELSE m[o]
      BY <1>5, <1>10, Zenon DEF Becomes, m
    <2>2. ASSUME NEW o \in tx.outs PROVE Through(d, below)[o] = NoCoin
      <3>1. o \in OutPoint /\ m[o] = NoCoin
        BY <1>1, <1>10, Zenon
      <3> QED  BY <2>1, <3>1, Zenon
    <2>3. /\ Sound(e, below)
          /\ \A o \in OutPoint : Through(e, below)[o] =
                 IF o \in tx.outs THEN h ELSE Through(d, below)[o]
      BY <1>7, <2>1, <2>2, Zenon DEF Becomes
    <2>4. Through(e, below) \in View
      BY <1>6, ThroughAt, Zenon
    <2>5. /\ TxOnMap(m, tx, h) \in View
          /\ \A o \in OutPoint : TxOnMap(m, tx, h)[o] =
                  IF o \in tx.outs THEN h ELSE IF o \in tx.ins THEN NoCoin ELSE m[o]
      BY <1>3, TxOnMapAt, Zenon
    <2>6. \A o \in OutPoint : Through(e, below)[o] = TxOnMap(m, tx, h)[o]
      BY <2>1, <2>3, <2>5, Zenon
    <2> QED  BY <2>3, <2>4, <2>5, <2>6, SameView, Zenon
  <1> QED  BY <1>9, <1>10, Zenon DEF c, m

LEMMA RollStep ==
    ASSUME NEW c \in Cache, NEW below \in View, NEW tx \in Tx, NEW h \in Coin
    PROVE  LET r == RollforwardTx(c, below, tx, h)
           IN /\ r \in Cache
              /\ Sound(c, below) /\ (tx.coinbase => tx.ins = {}) =>
                    /\ Sound(r, below)
                    /\ Through(r, below) = TxOnMap(Through(c, below), tx, h)
  <1> DEFINE r == RollforwardTx(c, below, tx, h)
             m == Through(c, below)
             d == IF tx.coinbase THEN c ELSE SpendAll(c, below, tx.ins)
  <1>1. tx.ins \in SUBSET OutPoint /\ tx.outs \in SUBSET OutPoint /\ tx.coinbase \in BOOLEAN
    BY Zenon DEF Tx
  <1>2. d \in Cache
    BY <1>1, SpendAllOK, Zenon
  <1>3. ASSUME Sound(c, below), tx.coinbase => tx.ins = {}
        PROVE  Becomes(d, c, below, tx.ins, NoCoin)
    <2>1. CASE tx.coinbase
      BY <1>3, <2>1, Zenon DEF Becomes
    <2>2. CASE ~tx.coinbase
      BY <1>1, <1>3, <2>2, SpendAllOK, Zenon
    <2> QED  BY <1>1, <2>1, <2>2, Zenon
  <1>4. r = AddCoins(d, below, tx, h, TRUE)
    BY Zenon DEF RollforwardTx
  <1> HIDE DEF d, r
  <1>5. r \in Cache /\ (Sound(d, below) => Becomes(r, d, below, tx.outs, h))
    BY <1>2, <1>4, AddChecked, Zenon
  <1>6. m \in View
    BY ThroughAt, Zenon
  <1>7. ASSUME Sound(c, below), tx.coinbase => tx.ins = {}
        PROVE  Sound(r, below) /\ Through(r, below) = TxOnMap(m, tx, h)
    <2>1. /\ Sound(d, below)
          /\ \A o \in OutPoint : Through(d, below)[o] = IF o \in tx.ins THEN NoCoin ELSE m[o]
      BY <1>3, <1>7, Zenon DEF Becomes
    <2> HIDE DEF m
    <2>2. /\ Sound(r, below)
          /\ \A o \in OutPoint : Through(r, below)[o] =
                 IF o \in tx.outs THEN h ELSE Through(d, below)[o]
      BY <1>5, <2>1, Zenon DEF Becomes
    <2>3. Through(r, below) \in View
      BY <1>5, ThroughAt, Zenon
    <2>4. /\ TxOnMap(m, tx, h) \in View
          /\ \A o \in OutPoint : TxOnMap(m, tx, h)[o] =
                  IF o \in tx.outs THEN h ELSE IF o \in tx.ins THEN NoCoin ELSE m[o]
      BY <1>6, TxOnMapAt, Zenon
    <2>5. \A o \in OutPoint : Through(r, below)[o] = TxOnMap(m, tx, h)[o]
      BY <2>1, <2>2, <2>4, Zenon
    <2> QED  BY <2>2, <2>3, <2>4, <2>5, SameView, Zenon
  <1> QED  BY <1>5, <1>7, Zenon DEF r, m

Disconnecting == [cache : Cache, fClean : BOOLEAN]

LEMMA UndoStep ==
    ASSUME NEW s \in Disconnecting, NEW below \in View, NEW tx \in Tx, NEW undo \in View,
           NEW h \in Coin
    PROVE  LET r == UndoTx(s, below, tx, undo, h)
               m == Through(s.cache, below)
           IN /\ r \in Disconnecting
              /\ Sound(s.cache, below) =>
                    /\ Sound(r.cache, below)
                    /\ \A o \in OutPoint : Through(r.cache, below)[o] =
                           IF o \in tx.ins THEN undo[o] ELSE IF o \in tx.outs THEN NoCoin ELSE m[o]
                    /\ s.fClean /\ (\A o \in tx.outs : m[o] = h)
                          /\ (\A o \in tx.ins : o \in tx.outs \/ m[o] = NoCoin) => r.fClean
  <1> DEFINE r == UndoTx(s, below, tx, undo, h)
             c == s.cache
             m == Through(c, below)
             d == SpendAll(c, below, tx.outs)
             have(o) == HaveCoin(d, below, o)
             e == [o \in OutPoint |-> IF o \in tx.ins
                                      THEN AddCoin(FetchCoin(d, below, o), o, undo[o], have(o))[o]
                                      ELSE d[o]]
             clean == /\ s.fClean
                      /\ \A o \in tx.outs : m[o] = h
                      /\ \A o \in tx.ins : ~have(o)
  <1>1. c \in Cache /\ s.fClean \in BOOLEAN /\ tx.ins \in SUBSET OutPoint
        /\ tx.outs \in SUBSET OutPoint
    BY Zenon DEF Disconnecting, Tx
  <1>2. r = [cache |-> e, fClean |-> clean]
    BY Zenon DEF UndoTx
  <1>3. m \in View
    BY <1>1, ThroughAt, Zenon
  <1>4. d \in Cache /\ (Sound(c, below) => Becomes(d, c, below, tx.outs, NoCoin))
    BY <1>1, SpendAllOK, Zenon
  <1>5. /\ e = [o \in OutPoint |-> e[o]]
        /\ \A o \in OutPoint : e[o] =
               IF o \in tx.ins THEN AddCoin(FetchCoin(d, below, o), o, undo[o], have(o))[o]
               ELSE d[o]
    BY Zenon
  <1> HIDE DEF d, e
  <1>6. ASSUME NEW o \in OutPoint
        PROVE  /\ have(o) \in BOOLEAN /\ (~have(o) <=> Through(d, below)[o] = NoCoin)
               /\ Through(d, below)[o] = Seen(d[o], below[o])
    BY <1>4, ThroughAt, Zenon DEF HaveCoin
  <1> HIDE DEF have
  <1>7. ASSUME NEW o \in OutPoint
        PROVE  /\ e[o] \in Slot
               /\ SoundAt(d[o], below[o]) =>
                     /\ SoundAt(e[o], below[o])
                     /\ Seen(e[o], below[o]) = IF o \in tx.ins THEN undo[o]
                                               ELSE Seen(d[o], below[o])
    <2>1. CASE o \notin tx.ins
      BY <1>4, <1>5, <2>1, Zenon DEF Cache, Slot
    <2>2. CASE o \in tx.ins
      <3> DEFINE f == FetchCoin(d, below, o)
                 a == AddCoin(f, o, undo[o], have(o))[o]
      <3>1. /\ f \in Cache /\ Seen(f[o], below[o]) = Seen(d[o], below[o])
            /\ SoundAt(d[o], below[o]) => SoundAt(f[o], below[o])
        BY <1>4, FetchAt, Zenon
      <3>2. undo[o] \in Coins
        BY Zenon DEF View, Coins
      <3> HIDE DEF f
      <3>3. /\ a \in Entry /\ a # NoEntry /\ a.coin = undo[o]
            /\ SoundAt(f[o], below[o]) /\ (~have(o) => Seen(f[o], below[o]) = NoCoin)
                  => SoundAt(a, below[o])
        BY <1>6, <3>1, <3>2, AddAt
      <3>4. e[o] = a
        BY <1>5, <2>2, Zenon DEF f
      <3> HIDE DEF a
      <3> QED  BY <1>6, <2>2, <3>1, <3>3, <3>4, Zenon DEF Slot, Seen
    <2> QED  BY <2>1, <2>2, Zenon
  <1>8. e \in Cache
    BY <1>5, <1>7, Zenon DEF Cache, Slot
  <1>9. clean \in BOOLEAN
    BY Zenon
  <1>10. ASSUME Sound(c, below)
         PROVE  /\ Sound(e, below)
                /\ \A o \in OutPoint : Through(e, below)[o] =
                       IF o \in tx.ins THEN undo[o] ELSE IF o \in tx.outs THEN NoCoin ELSE m[o]
                /\ s.fClean /\ (\A o \in tx.outs : m[o] = h)
                      /\ (\A o \in tx.ins : o \in tx.outs \/ m[o] = NoCoin) => clean
    <2>1. /\ Sound(d, below)
          /\ \A o \in OutPoint : Through(d, below)[o] = IF o \in tx.outs THEN NoCoin ELSE m[o]
      BY <1>4, <1>10, Zenon DEF Becomes
    <2> HIDE DEF m
    <2>2. \A o \in OutPoint : Through(e, below)[o] = Seen(e[o], below[o])
      BY <1>8, ThroughAt, Zenon
    <2>3. Sound(e, below)
      BY <1>7, <2>1, Zenon DEF Sound
    <2>4. ASSUME NEW o \in OutPoint
          PROVE  Through(e, below)[o] =
                     IF o \in tx.ins THEN undo[o] ELSE IF o \in tx.outs THEN NoCoin ELSE m[o]
      <3>1. Seen(e[o], below[o]) = IF o \in tx.ins THEN undo[o] ELSE Through(d, below)[o]
        BY <1>6, <1>7, <2>1, Zenon DEF Sound
      <3> QED  BY <2>1, <2>2, <3>1, Zenon
    <2>5. ASSUME NEW o \in tx.ins, o \in tx.outs \/ m[o] = NoCoin PROVE ~have(o)
      <3>1. o \in OutPoint
        BY <1>1, Zenon
      <3>2. Through(d, below)[o] = NoCoin
        BY <2>1, <2>5, <3>1, Zenon
      <3> QED  BY <1>6, <3>1, <3>2, Zenon
    <2> QED  BY <2>3, <2>4, <2>5, Zenon
  <1>11. r \in Disconnecting /\ r.cache = e /\ r.fClean = clean
    <2> HIDE DEF clean, r
    <2> QED  BY <1>2, <1>8, <1>9, Zenon DEF Disconnecting
  <1> HIDE DEF r, clean
  <1> QED  BY <1>10, <1>11, Zenon DEF r

-----------------------------------------------------------------------------
(* The unspent coins after each transaction of a block *)

\* The transactions of a block.
LEMMA VtxOK ==
    ASSUME NEW b \in Block \ {Genesis}
    PROVE  /\ Len(Vtx[b]) \in Nat /\ Height[b] \in Coin
           /\ \A k \in 1..Len(Vtx[b]) :
                 Vtx[b][k] \in Tx /\ (Vtx[b][k].coinbase => Vtx[b][k].ins = {})
  <1>1. Vtx[b] \in Seq(Tx) /\ Height[b] \in Coin
    BY VtxAssumption, Zenon DEF Tx
  <1>2. \A k \in 1..Len(Vtx[b]) : Vtx[b][k].coinbase => Vtx[b][k].ins = {}
    BY VtxAssumption, Zenon
  <1> QED  BY <1>1, <1>2

\* The recursive function of MapAfter is defined.
LEMMA MapAfterOK ==
    ASSUME NEW m \in View, NEW b \in Block \ {Genesis}
    PROVE  LET n == Len(Vtx[b])
               f == MapAfter(m, b)
           IN /\ f \in [0..n -> View] /\ f[0] = m
              /\ \A k \in 1..n : f[k] = TxOnMap(f[k - 1], Vtx[b][k], Height[b])
  <1> DEFINE n == Len(Vtx[b])
             h == Height[b]
             seq == Vtx[b]
             r == MapAfter(m, b)
             F == [p \in (1..n) \X View |-> TxOnMap(p[2], seq[p[1]], h)]
             IsIt(g) == g = [k \in 0..n |-> IF k = 0 THEN m ELSE TxOnMap(g[k - 1], seq[k], h)]
  <1>1. n \in Nat /\ h \in Coin /\ \A k \in 1..n : seq[k] \in Tx
    BY VtxOK, Zenon
  <1>2. r = CHOOSE g : IsIt(g)
    BY Zenon DEF MapAfter
  <1> HIDE DEF n, h, seq, r
  <1>3. \A k \in 1..n : \A u \in View : TxOnMap(u, seq[k], h) \in View
    BY <1>1, TxOnMapAt, Zenon
  <1>4. /\ F \in [((0 + 1)..n) \X View -> View]
        /\ \A k \in 1..n : \A u \in View : F[<<k, u>>] = TxOnMap(u, seq[k], h)
    BY <1>3
  <1> HIDE DEF F
  <1>5. PICK f \in [0..n -> View] : Climbs(f, 0, n, m, F)
    <2>1. 0 \in Nat /\ n \in Nat /\ 0 <= n
      BY <1>1
    <2> QED  BY <1>4, <2>1, UpExists, Zenon
  <1>6. IsIt(f)
    <2>1. ASSUME NEW k \in 0..n PROVE f[k] = IF k = 0 THEN m ELSE TxOnMap(f[k - 1], seq[k], h)
      <3>1. CASE k = 0
        BY <1>5, <3>1, Zenon DEF Climbs
      <3>2. CASE k # 0
        <4>1. k \in 1..n /\ k \in (0 + 1)..n /\ k - 1 \in 0..n
          BY <1>1, <3>2
        <4>2. f[k] = F[<<k, f[k - 1]>>]
          BY <1>5, <4>1, Zenon DEF Climbs
        <4> QED  BY <1>4, <3>2, <4>1, <4>2, Zenon
      <3> QED  BY <3>1, <3>2, Zenon
    <2> QED  BY <2>1, Zenon
  <1>7. IsIt(r)
    BY <1>2, <1>6, Zenon
  <1>8. /\ r[0] = m
        /\ \A k \in 1..n : r[k] = TxOnMap(r[k - 1], seq[k], h)
    BY <1>1, <1>7
  <1> DEFINE S == {k \in 0..n : r[k] \in View}
  <1>9. 0 \in S
    BY <1>1, <1>8
  <1>10. ASSUME NEW k \in (0 + 1)..n, k - 1 \in S PROVE k \in S
    BY <1>1, <1>3, <1>8, <1>10
  <1> HIDE DEF S
  <1>11. \A k \in 0..n : k \in S
    BY <1>1, <1>9, <1>10, CountingUp, Zenon
  <1>12. r \in [0..n -> View]
    BY <1>7, <1>11, Zenon DEF S
  <1> QED  BY <1>8, <1>12, Zenon DEF r, n, h, seq

\* The unspent coins are defined on the whole tree: those of the parent, and the block's
\* transactions in turn.
LEMMA UtxoDef ==
    /\ UtxoAt \in [Block -> View]
    /\ UtxoAt[Genesis] = [o \in OutPoint |-> NoCoin]
    /\ \A b \in Block \ {Genesis} : UtxoAt[b] = MapAfter(UtxoAt[Parent[b]], b)[Len(Vtx[b])]
  <1> DEFINE v == [o \in OutPoint |-> NoCoin]
             Whole(m, b) == MapAfter(m, b)[Len(Vtx[b])]
             F == [p \in Block \X View |-> IF p[1] = Genesis THEN v ELSE Whole(p[2], p[1])]
             IsUtxo(f) == f = [b \in Block |-> IF b = Genesis THEN v ELSE Whole(f[Parent[b]], b)]
  <1>1. v \in View
    BY Zenon DEF View
  <1>2. ASSUME NEW b \in Block \ {Genesis}, NEW m \in View PROVE Whole(m, b) \in View
    BY MapAfterOK, VtxOK
  <1>3. UtxoAt = CHOOSE g : IsUtxo(g)
    BY Zenon DEF UtxoAt
  <1> HIDE DEF v, Whole
  <1>4. F \in [Block \X View -> View]
    BY <1>1, <1>2, Zenon
  <1>5. \A b \in Block \ {Genesis}, m \in View : F[<<b, m>>] = Whole(m, b)
    BY Zenon
  <1> HIDE DEF F
  <1>6. PICK f \in [Block -> View] : Solves(f, Block, v, F)
    BY <1>1, <1>4, TreeRecursion, Zenon
  <1>7. IsUtxo(f)
    <2>1. \A b \in Block : f[b] = IF b = Genesis THEN v ELSE Whole(f[Parent[b]], b)
      BY <1>5, <1>6, AncestryAssumption, Zenon DEF Solves
    <2> QED  BY <2>1, Zenon
  <1>8. IsUtxo(UtxoAt)
    BY <1>3, <1>7, Zenon
  <1>9. \A b \in Block : UtxoAt[b] = IF b = Genesis THEN v ELSE Whole(UtxoAt[Parent[b]], b)
    BY <1>8, Zenon
  <1> DEFINE S == {b \in Block : UtxoAt[b] \in View}
  <1>10. S = Block
    <2>1. Genesis \in S
      BY <1>1, <1>9, AncestryAssumption, Zenon
    <2>2. \A b \in Block \ {Genesis} : Parent[b] \in S => b \in S
      BY <1>2, <1>9, Zenon
    <2> QED  BY <2>1, <2>2, TreeAssumption, Zenon
  <1>11. UtxoAt \in [Block -> View]
    BY <1>8, <1>10, Zenon
  <1> QED  BY <1>9, <1>11, AncestryAssumption, Zenon DEF v, Whole

\* The unspent coins of the chain after the first k transactions of b.
Before(b, k) == MapAfter(UtxoAt[Parent[b]], b)[k]

\* The blocks are valid.
LEMMA BeforeOK ==
    ASSUME NEW b \in Block \ {Genesis}
    PROVE  LET n == Len(Vtx[b])
           IN /\ n \in Nat /\ Height[b] \in Coin
              /\ \A k \in 0..n : Before(b, k) \in View
              /\ Before(b, 0) = UtxoAt[Parent[b]] /\ Before(b, n) = UtxoAt[b]
              /\ \A k \in 1..n :
                    /\ Vtx[b][k] \in Tx /\ (Vtx[b][k].coinbase => Vtx[b][k].ins = {})
                    /\ Before(b, k) = TxOnMap(Before(b, k - 1), Vtx[b][k], Height[b])
                    /\ \A o \in Vtx[b][k].outs : Before(b, k - 1)[o] = NoCoin
  <1> DEFINE n == Len(Vtx[b])
             m == UtxoAt[Parent[b]]
             f == MapAfter(m, b)
  <1>1. m \in View
    BY UtxoDef, AncestryAssumption, Zenon
  <1>2. UtxoAt[b] = f[n]
    BY UtxoDef, Zenon
  <1>3. \A k \in 1..n : \A o \in Vtx[b][k].outs : f[k - 1][o] = NoCoin
    BY RecoveryAssumption
  <1> HIDE DEF m
  <1>4. /\ f \in [0..n -> View] /\ f[0] = m
        /\ \A k \in 1..n : f[k] = TxOnMap(f[k - 1], Vtx[b][k], Height[b])
    BY <1>1, MapAfterOK, Zenon
  <1> QED  BY <1>2, <1>3, <1>4, VtxOK, Zenon DEF Before, m

-----------------------------------------------------------------------------
(* The transactions of a block in turn *)

LEMMA EmptyCacheOK ==
    ASSUME NEW below \in View
    PROVE  /\ EmptyCache \in Cache /\ Sound(EmptyCache, below)
           /\ Through(EmptyCache, below) = below
  <1>1. EmptyCache \in Cache /\ \A o \in OutPoint : EmptyCache[o] = NoEntry
    BY Zenon DEF EmptyCache, Cache
  <1>2. Sound(EmptyCache, below)
    BY <1>1, Zenon DEF Sound, SoundAt
  <1>3. \A o \in OutPoint : Through(EmptyCache, below)[o] = below[o]
    BY <1>1, ThroughAt, Zenon DEF Seen
  <1>4. Through(EmptyCache, below) \in View
    BY <1>1, ThroughAt, Zenon
  <1>5. Through(EmptyCache, below) = below
    BY <1>3, <1>4, SameView, Zenon
  <1> QED  BY <1>1, <1>2, <1>5, Zenon

\* ConnectBlock begins with an empty view and no undo data.
NothingDone == [cache |-> EmptyCache, undo |-> [o \in OutPoint |-> NoCoin]]

LEMMA NothingDoneOK == NothingDone \in Connecting /\ NothingDone.cache = EmptyCache
  BY Zenon DEF NothingDone, Connecting, EmptyCache, Cache, View

ConnectsAlong(f, below, b) ==
    /\ f[0] = NothingDone
    /\ \A k \in 1..Len(Vtx[b]) : f[k] = UpdateCoins(f[k - 1], below, Vtx[b][k], Height[b])

LEMMA ConnectSteps ==
    ASSUME NEW below \in View, NEW b \in Block \ {Genesis}
    PROVE  \E f : ConnectsAlong(f, below, b) /\ ConnectCoins(below, b) = f[Len(Vtx[b])]
  <1> DEFINE n == Len(Vtx[b])
             h == Height[b]
             seq == Vtx[b]
             v == NothingDone
             F == [p \in ((0 + 1)..n) \X Connecting |-> UpdateCoins(p[2], below, seq[p[1]], h)]
             IsIt(g) == g = [k \in 0..n |-> IF k = 0 THEN v ELSE UpdateCoins(g[k - 1], below, seq[k], h)]
             r == CHOOSE g : IsIt(g)
  <1>1. /\ 0 \in Nat /\ n \in Nat /\ 0 <= n /\ h \in Coin /\ v \in Connecting
        /\ \A k \in 1..n : seq[k] \in Tx
    BY VtxOK, NothingDoneOK
  <1>2. ConnectCoins(below, b) = r[n]
    BY Zenon DEF ConnectCoins, NothingDone
  <1> HIDE DEF n, h, seq, v
  <1>3. \A k \in (0 + 1)..n : \A u \in Connecting : UpdateCoins(u, below, seq[k], h) \in Connecting
    BY <1>1, UpdateStep
  <1>4. /\ F \in [((0 + 1)..n) \X Connecting -> Connecting]
        /\ \A k \in (0 + 1)..n : \A u \in Connecting : F[<<k, u>>] = UpdateCoins(u, below, seq[k], h)
    BY <1>3, Zenon
  <1> HIDE DEF F
  <1>5. PICK f \in [0..n -> Connecting] : Climbs(f, 0, n, v, F)
    BY <1>1, <1>4, UpExists, Zenon
  <1>6. IsIt(f)
    <2>1. ASSUME NEW k \in 0..n PROVE f[k] = IF k = 0 THEN v ELSE UpdateCoins(f[k - 1], below, seq[k], h)
      <3>1. CASE k = 0
        BY <1>5, <3>1, Zenon DEF Climbs
      <3>2. CASE k # 0
        <4>1. k \in (0 + 1)..n /\ k - 1 \in 0..n
          BY <1>1, <3>2
        <4>2. f[k] = F[<<k, f[k - 1]>>]
          BY <1>5, <4>1, Zenon DEF Climbs
        <4> QED  BY <1>4, <3>2, <4>1, <4>2, Zenon
      <3> QED  BY <3>1, <3>2, Zenon
    <2> QED  BY <2>1, Zenon
  <1>7. IsIt(r)
    BY <1>6, Zenon
  <1> HIDE DEF r
  <1>8. r[0] = v /\ \A k \in (0 + 1)..n : r[k] = UpdateCoins(r[k - 1], below, seq[k], h)
    BY <1>1, <1>7
  <1> QED  BY <1>1, <1>2, <1>8 DEF ConnectsAlong, n, h, seq, v

UndoesAlong(f, c, below, b, undo) ==
    /\ f[Len(Vtx[b])] = [cache |-> c, fClean |-> TRUE]
    /\ \A k \in 0..(Len(Vtx[b]) - 1) :
          f[k] = UndoTx(f[k + 1], below, Vtx[b][k + 1], undo, Height[b])

LEMMA DisconnectSteps ==
    ASSUME NEW c \in Cache, NEW below \in View, NEW b \in Block \ {Genesis},
           NEW undo \in View
    PROVE  \E f : UndoesAlong(f, c, below, b, undo) /\ DisconnectCoins(c, below, b, undo) = f[0]
  <1> DEFINE n == Len(Vtx[b])
             h == Height[b]
             seq == Vtx[b]
             v == [cache |-> c, fClean |-> TRUE]
             F == [p \in (0..(n - 1)) \X Disconnecting |-> UndoTx(p[2], below, seq[p[1] + 1], undo, h)]
             IsIt(g) == g = [k \in 0..n |-> IF k = n THEN v ELSE UndoTx(g[k + 1], below, seq[k + 1], undo, h)]
             r == CHOOSE g : IsIt(g)
  <1>1. /\ 0 \in Nat /\ n \in Nat /\ 0 <= n /\ h \in Coin /\ v \in Disconnecting
        /\ \A k \in 1..n : seq[k] \in Tx
    BY VtxOK DEF Disconnecting
  <1>2. DisconnectCoins(c, below, b, undo) = r[0]
    BY Zenon DEF DisconnectCoins
  <1> HIDE DEF n, h, seq, v
  <1>3. \A k \in 0..(n - 1) : \A u \in Disconnecting : UndoTx(u, below, seq[k + 1], undo, h) \in Disconnecting
    BY <1>1, UndoStep
  <1>4. /\ F \in [(0..(n - 1)) \X Disconnecting -> Disconnecting]
        /\ \A k \in 0..(n - 1) : \A u \in Disconnecting : F[<<k, u>>] = UndoTx(u, below, seq[k + 1], undo, h)
    BY <1>3, Zenon
  <1> HIDE DEF F
  <1>5. PICK f \in [0..n -> Disconnecting] : Descends(f, 0, n, v, F)
    BY <1>1, <1>4, DownExists, Zenon
  <1>6. IsIt(f)
    <2>1. ASSUME NEW k \in 0..n PROVE f[k] = IF k = n THEN v ELSE UndoTx(f[k + 1], below, seq[k + 1], undo, h)
      <3>1. CASE k = n
        BY <1>5, <3>1, Zenon DEF Descends
      <3>2. CASE k # n
        <4>1. k \in 0..(n - 1) /\ k + 1 \in 0..n
          BY <1>1, <3>2
        <4>2. f[k] = F[<<k, f[k + 1]>>]
          BY <1>5, <4>1, Zenon DEF Descends
        <4> QED  BY <1>4, <3>2, <4>1, <4>2, Zenon
      <3> QED  BY <3>1, <3>2, Zenon
    <2> QED  BY <2>1, Zenon
  <1>7. IsIt(r)
    BY <1>6, Zenon
  <1> HIDE DEF r
  <1>8. r[n] = v /\ \A k \in 0..(n - 1) : r[k] = UndoTx(r[k + 1], below, seq[k + 1], undo, h)
    BY <1>1, <1>7
  <1> QED  BY <1>1, <1>2, <1>8, Zenon DEF UndoesAlong, n, h, seq, v

RollsAlong(f, c, below, b) ==
    /\ f[0] = c
    /\ \A k \in 1..Len(Vtx[b]) : f[k] = RollforwardTx(f[k - 1], below, Vtx[b][k], Height[b])

LEMMA RollforwardSteps ==
    ASSUME NEW c \in Cache, NEW below \in View, NEW b \in Block \ {Genesis}
    PROVE  \E f : RollsAlong(f, c, below, b) /\ RollforwardBlock(c, below, b) = f[Len(Vtx[b])]
  <1> DEFINE n == Len(Vtx[b])
             h == Height[b]
             seq == Vtx[b]
             v == c
             F == [p \in ((0 + 1)..n) \X Cache |-> RollforwardTx(p[2], below, seq[p[1]], h)]
             IsIt(g) == g = [k \in 0..n |-> IF k = 0 THEN v ELSE RollforwardTx(g[k - 1], below, seq[k], h)]
             r == CHOOSE g : IsIt(g)
  <1>1. /\ 0 \in Nat /\ n \in Nat /\ 0 <= n /\ h \in Coin /\ v \in Cache
        /\ \A k \in 1..n : seq[k] \in Tx
    BY VtxOK
  <1>2. RollforwardBlock(c, below, b) = r[n]
    BY Zenon DEF RollforwardBlock
  <1> HIDE DEF n, h, seq, v
  <1>3. \A k \in (0 + 1)..n : \A u \in Cache : RollforwardTx(u, below, seq[k], h) \in Cache
    BY <1>1, RollStep
  <1>4. /\ F \in [((0 + 1)..n) \X Cache -> Cache]
        /\ \A k \in (0 + 1)..n : \A u \in Cache : F[<<k, u>>] = RollforwardTx(u, below, seq[k], h)
    BY <1>3, Zenon
  <1> HIDE DEF F
  <1>5. PICK f \in [0..n -> Cache] : Climbs(f, 0, n, v, F)
    BY <1>1, <1>4, UpExists, Zenon
  <1>6. IsIt(f)
    <2>1. ASSUME NEW k \in 0..n PROVE f[k] = IF k = 0 THEN v ELSE RollforwardTx(f[k - 1], below, seq[k], h)
      <3>1. CASE k = 0
        BY <1>5, <3>1, Zenon DEF Climbs
      <3>2. CASE k # 0
        <4>1. k \in (0 + 1)..n /\ k - 1 \in 0..n
          BY <1>1, <3>2
        <4>2. f[k] = F[<<k, f[k - 1]>>]
          BY <1>5, <4>1, Zenon DEF Climbs
        <4> QED  BY <1>4, <3>2, <4>1, <4>2, Zenon
      <3> QED  BY <3>1, <3>2, Zenon
    <2> QED  BY <2>1, Zenon
  <1>7. IsIt(r)
    BY <1>6, Zenon
  <1> HIDE DEF r
  <1>8. r[0] = v /\ \A k \in (0 + 1)..n : r[k] = RollforwardTx(r[k - 1], below, seq[k], h)
    BY <1>1, <1>7
  <1>9. \A k \in 1..n : r[k] = RollforwardTx(r[k - 1], below, seq[k], h)
    BY <1>8
  <1> QED  BY <1>2, <1>8, <1>9, Zenon DEF RollsAlong, n, h, seq, v

-----------------------------------------------------------------------------
(* What a block does to the coins *)

\* While the reference moved from x to y, the view v became w: each outpoint is as in y, or
\* was left alone because x and y agree on it.
Moves(v, w, x, y) ==
    \A o \in OutPoint : w[o] = y[o] \/ (w[o] = v[o] /\ x[o] = y[o])

LEMMA MovesOn ==
    ASSUME NEW v, NEW w, NEW z, NEW x, NEW y, NEW u, Moves(v, w, x, y), Moves(w, z, y, u)
    PROVE  Moves(v, z, x, u)
  BY Zenon DEF Moves

LEMMA MovesNot ==
    ASSUME NEW v, NEW x
    PROVE  Moves(v, v, x, x)
  BY Zenon DEF Moves

LEMMA MovesAll ==
    ASSUME NEW v, NEW w \in View, NEW x, NEW y \in View,
           Moves(v, w, x, y), \A o \in OutPoint : v[o] = x[o] \/ v[o] = y[o]
    PROVE  w = y
  <1>1. \A o \in OutPoint : w[o] = y[o]
    BY Zenon DEF Moves
  <1> QED  BY <1>1, SameView, Zenon

\* The undo data that ConnectBlock writes for b: what each input was.
UndoRight(b, u) ==
    /\ u \in View
    /\ \A k \in 1..Len(Vtx[b]) : \A o \in Vtx[b][k].ins : u[o] = Before(b, k - 1)[o]

\* ConnectBlock over the parent's coins.
LEMMA ConnectBlockOK ==
    ASSUME NEW b \in Block \ {Genesis}
    PROVE  LET s == ConnectCoins(UtxoAt[Parent[b]], b)
           IN /\ s \in Connecting /\ Sound(s.cache, UtxoAt[Parent[b]])
              /\ Through(s.cache, UtxoAt[Parent[b]]) = UtxoAt[b]
              /\ UndoRight(b, s.undo)
  <1> DEFINE below == UtxoAt[Parent[b]]
             n == Len(Vtx[b])
             h == Height[b]
             OK(s, k) == /\ s \in Connecting /\ Sound(s.cache, below)
                         /\ Through(s.cache, below) = Before(b, k)
                         /\ \A j \in 1..k : \A o \in Vtx[b][j].ins :
                                s.undo[o] = Before(b, j - 1)[o]
  <1>1. below \in View
    BY UtxoDef, AncestryAssumption
  <1>2. /\ n \in Nat /\ h \in Coin
        /\ \A k \in 0..n : Before(b, k) \in View
        /\ Before(b, 0) = below /\ Before(b, n) = UtxoAt[b]
        /\ \A k \in 1..n :
              /\ Vtx[b][k] \in Tx
              /\ Before(b, k) = TxOnMap(Before(b, k - 1), Vtx[b][k], Height[b])
              /\ \A o \in Vtx[b][k].outs : Before(b, k - 1)[o] = NoCoin
    BY BeforeOK, Zenon
  <1> HIDE DEF below
  <1>3. PICK f : ConnectsAlong(f, below, b) /\ ConnectCoins(below, b) = f[Len(Vtx[b])]
    BY <1>1, ConnectSteps, Zenon
  <1>4. /\ f[0] = NothingDone
        /\ \A k \in 1..n : f[k] = UpdateCoins(f[k - 1], below, Vtx[b][k], h)
    BY <1>3, Zenon DEF ConnectsAlong
  <1> DEFINE S == {k \in 0..n : OK(f[k], k)}
  <1>5. 0 \in S
    <2>1. Through(EmptyCache, below) = below /\ Sound(EmptyCache, below)
      BY <1>1, EmptyCacheOK, Zenon
    <2> QED  BY <1>2, <1>4, <2>1, NothingDoneOK
  <1>6. ASSUME NEW k \in 1..n, k - 1 \in S PROVE k \in S
    <2> DEFINE s == f[k - 1]
               tx == Vtx[b][k]
               r == UpdateCoins(s, below, tx, h)
    <2>1. k - 1 \in 0..n /\ k \in 0..n /\ OK(s, k - 1)
      <3>1. OK(s, k - 1)
        BY <1>6, Zenon
      <3> HIDE DEF OK, S, s
      <3>2. k - 1 \in 0..n /\ k \in 0..n
        BY <1>2
      <3> QED  BY <3>1, <3>2, Zenon
    <2>2. s \in Connecting /\ tx \in Tx /\ h \in Coin
      BY <1>2, <2>1, Zenon
    <2>3. \A o \in tx.outs : Through(s.cache, below)[o] = NoCoin
      BY <1>2, <2>1, Zenon
    <2>4. /\ r \in Connecting
          /\ \A o \in OutPoint : r.undo[o] =
                 IF o \in tx.ins THEN Through(s.cache, below)[o] ELSE s.undo[o]
          /\ Sound(r.cache, below) /\ Through(r.cache, below) = TxOnMap(Through(s.cache, below), tx, h)
      <3>1. Sound(s.cache, below)
        BY <2>1, Zenon
      <3> HIDE DEF s, tx, h
      <3> QED  BY <1>1, <2>2, <2>3, <3>1, UpdateStep
    <2> HIDE DEF r
    <2>5. Through(r.cache, below) = Before(b, k)
      BY <1>2, <2>1, <2>4, Zenon
    <2>6. ASSUME NEW j \in 1..k, NEW o \in Vtx[b][j].ins PROVE r.undo[o] = Before(b, j - 1)[o]
      <3>0. j \in 1..n
        BY <1>2
      <3>1. j \in 1..n /\ o \in OutPoint
        BY <1>2, <3>0, Zenon DEF Tx
      <3>2. CASE j = k
        BY <2>1, <2>4, <3>1, <3>2, Zenon
      <3>3. CASE j # k
        <4>1. o \notin tx.ins
          BY <3>1, <3>3, VtxAssumption, Zenon
        <4>2. j \in 1..(k - 1)
          BY <1>2, <3>3
        <4> QED  BY <2>1, <2>4, <3>1, <4>1, <4>2, Zenon
      <3> QED  BY <3>2, <3>3, Zenon
    <2>7. OK(r, k)
      BY <2>4, <2>5, <2>6, Zenon
    <2> QED  BY <1>4, <2>1, <2>7, Zenon DEF r
  <1> HIDE DEF S
  <1>7. 0 \in Nat /\ n \in Nat /\ n \in 0..n
    BY <1>2
  <1>8. n \in S
    <2> HIDE DEF n
    <2>1. \A k \in (0 + 1)..n : k - 1 \in S => k \in S
      BY <1>6
    <2> QED  BY <1>5, <1>7, <2>1, CountingUp, Zenon
  <1>9. OK(f[n], n)
    BY <1>8, Zenon DEF S
  <1>10. f[n].undo \in View
    BY <1>9, Zenon DEF Connecting
  <1>11. UndoRight(b, f[n].undo)
    BY <1>9, <1>10, Zenon DEF UndoRight
  <1> QED  BY <1>2, <1>3, <1>9, <1>11, Zenon DEF below

\* DisconnectBlock with the right undo data, on any sound cache.
LEMMA DisconnectBlockOK ==
    ASSUME NEW b \in Block \ {Genesis}, NEW c \in Cache, NEW below \in View, NEW undo,
           UndoRight(b, undo), Sound(c, below)
    PROVE  LET r == DisconnectCoins(c, below, b, undo)
               m == Through(c, below)
           IN /\ r \in Disconnecting /\ Sound(r.cache, below)
              /\ Moves(m, Through(r.cache, below), UtxoAt[b], UtxoAt[Parent[b]])
              /\ m = UtxoAt[b] => r.fClean
  <1> DEFINE n == Len(Vtx[b])
             h == Height[b]
             m == Through(c, below)
             OK(s, k) == /\ s \in Disconnecting /\ Sound(s.cache, below)
                         /\ Moves(m, Through(s.cache, below), Before(b, n), Before(b, k))
                         /\ m = Before(b, n) => s.fClean
  <1>1. /\ n \in Nat /\ h \in Coin
        /\ \A k \in 0..n : Before(b, k) \in View
        /\ Before(b, 0) = UtxoAt[Parent[b]] /\ Before(b, n) = UtxoAt[b]
        /\ \A k \in 1..n :
              /\ Vtx[b][k] \in Tx
              /\ Before(b, k) = TxOnMap(Before(b, k - 1), Vtx[b][k], Height[b])
              /\ \A o \in Vtx[b][k].outs : Before(b, k - 1)[o] = NoCoin
    BY BeforeOK, ZenonT(30)
  <1>2. undo \in View /\ \A k \in 1..n : \A o \in Vtx[b][k].ins : undo[o] = Before(b, k - 1)[o]
    BY Zenon DEF UndoRight
  <1>3. PICK f : UndoesAlong(f, c, below, b, undo) /\ DisconnectCoins(c, below, b, undo) = f[0]
    BY <1>2, DisconnectSteps, Zenon
  <1>4. /\ f[n] = [cache |-> c, fClean |-> TRUE]
        /\ \A k \in 0..(n - 1) : f[k] = UndoTx(f[k + 1], below, Vtx[b][k + 1], undo, h)
    BY <1>3, Zenon DEF UndoesAlong
  <1>5. m \in View
    BY ThroughAt, Zenon
  <1> HIDE DEF m
  <1> DEFINE S == {k \in 0..n : OK(f[k], k)}
  <1>6. n \in S
    <2>1. Moves(m, m, Before(b, n), Before(b, n))
      BY MovesNot, Zenon
    <2>2. f[n].cache = c /\ f[n].fClean /\ f[n] \in Disconnecting
      BY <1>4 DEF Disconnecting
    <2>3. OK(f[n], n)
      BY <2>1, <2>2, Zenon DEF m
    <2> QED  BY <1>1, <2>3
  <1>7. ASSUME NEW k \in 0..(n - 1), k + 1 \in S PROVE k \in S
    <2> DEFINE s == f[k + 1]
               tx == Vtx[b][k + 1]
               r == UndoTx(s, below, tx, undo, h)
               w == Through(s.cache, below)
               z == Through(r.cache, below)
               y == Before(b, k + 1)
               x == Before(b, k)
    <2>1. k + 1 - 1 = k /\ k + 1 \in 1..n /\ k + 1 \in 0..n /\ k \in 0..n
      BY <1>1
    <2>2. /\ s \in Disconnecting /\ Sound(s.cache, below)
          /\ Moves(m, w, Before(b, n), y)
          /\ m = Before(b, n) => s.fClean
      BY <1>7, <2>1, Zenon
    <2>3. tx \in Tx /\ h \in Coin /\ undo \in View
      BY <1>1, <1>2, <2>1, Zenon
    <2>4. /\ r \in Disconnecting /\ Sound(r.cache, below)
          /\ \A o \in OutPoint : z[o] =
                 IF o \in tx.ins THEN undo[o] ELSE IF o \in tx.outs THEN NoCoin ELSE w[o]
          /\ s.fClean /\ (\A o \in tx.outs : w[o] = h)
                /\ (\A o \in tx.ins : o \in tx.outs \/ w[o] = NoCoin) => r.fClean
      <3> HIDE DEF s, tx, h
      <3> QED  BY <2>2, <2>3, UndoStep
    <2>5. tx.ins \in SUBSET OutPoint /\ tx.outs \in SUBSET OutPoint
      BY <2>3, Zenon DEF Tx
    <2>6. /\ x \in View /\ y \in View
          /\ \A o \in tx.ins : undo[o] = x[o]
          /\ \A o \in tx.outs : x[o] = NoCoin
      BY <1>1, <1>2, <2>1
    <2>7. \A o \in OutPoint : y[o] =
              IF o \in tx.outs THEN h ELSE IF o \in tx.ins THEN NoCoin ELSE x[o]
      <3>1. y = TxOnMap(x, tx, h)
        BY <1>1, <2>1
      <3> HIDE DEF x, y, tx, h
      <3> QED  BY <2>3, <2>6, <3>1, TxOnMapAt, SMTT(20)
    <2> HIDE DEF s, tx, r, w, z, x, y, h
    <2>8. Moves(w, z, y, x)
      BY <2>4, <2>5, <2>6, <2>7, Zenon DEF Moves
    <2>9. Moves(m, z, Before(b, n), x)
      BY <2>2, <2>8, MovesOn, Zenon
    <2>10. ASSUME m = Before(b, n) PROVE r.fClean
      <3>1. \A o \in OutPoint : w[o] = y[o]
        BY <2>2, <2>10, Zenon DEF Moves
      <3> QED  BY <2>2, <2>4, <2>5, <2>7, <2>10, <3>1, Zenon
    <2>11. OK(r, k)
      BY <2>4, <2>9, <2>10, Zenon DEF x, z
    <2> QED  BY <1>4, <2>1, <2>11, Zenon DEF r, s, tx, h
  <1> HIDE DEF S
  <1>8. 0 \in Nat /\ n \in Nat /\ 0 \in 0..n
    BY <1>1
  <1>9. 0 \in S
    BY <1>6, <1>7, <1>8, CountingDown, Zenon
  <1>10. OK(f[0], 0)
    BY <1>9, Zenon DEF S
  <1> QED  BY <1>1, <1>3, <1>10, Zenon DEF m

\* RollforwardBlock, on any sound cache.
LEMMA RollforwardOK ==
    ASSUME NEW b \in Block \ {Genesis}, NEW c \in Cache, NEW below \in View, Sound(c, below)
    PROVE  LET r == RollforwardBlock(c, below, b)
           IN /\ r \in Cache /\ Sound(r, below)
              /\ Moves(Through(c, below), Through(r, below), UtxoAt[Parent[b]], UtxoAt[b])
  <1> DEFINE n == Len(Vtx[b])
             h == Height[b]
             m == Through(c, below)
             OK(s, k) == /\ s \in Cache /\ Sound(s, below)
                         /\ Moves(m, Through(s, below), Before(b, 0), Before(b, k))
  <1>1. /\ n \in Nat /\ h \in Coin
        /\ \A k \in 0..n : Before(b, k) \in View
        /\ Before(b, 0) = UtxoAt[Parent[b]] /\ Before(b, n) = UtxoAt[b]
        /\ \A k \in 1..n :
              /\ Vtx[b][k] \in Tx /\ (Vtx[b][k].coinbase => Vtx[b][k].ins = {})
              /\ Before(b, k) = TxOnMap(Before(b, k - 1), Vtx[b][k], Height[b])
    BY BeforeOK, Zenon
  <1>2. PICK f : RollsAlong(f, c, below, b) /\ RollforwardBlock(c, below, b) = f[n]
    BY RollforwardSteps, Zenon
  <1>3. f[0] = c /\ \A k \in 1..n : f[k] = RollforwardTx(f[k - 1], below, Vtx[b][k], h)
    BY <1>2, Zenon DEF RollsAlong
  <1> HIDE DEF m
  <1> DEFINE S == {k \in 0..n : OK(f[k], k)}
  <1>4. 0 \in S
    <2>1. OK(c, 0)
      BY MovesNot, Zenon DEF m
    <2> QED  BY <1>1, <1>3, <2>1
  <1>5. ASSUME NEW k \in 1..n, k - 1 \in S PROVE k \in S
    <2> DEFINE s == f[k - 1]
               tx == Vtx[b][k]
               r == RollforwardTx(s, below, tx, h)
               w == Through(s, below)
               z == Through(r, below)
               x == Before(b, k - 1)
               y == Before(b, k)
    <2>1. k \in 0..n /\ k - 1 \in 0..n
      BY <1>1
    <2>2. s \in Cache /\ Sound(s, below) /\ Moves(m, w, Before(b, 0), x)
      BY <1>5, <2>1, Zenon
    <2>3. tx \in Tx /\ h \in Coin /\ (tx.coinbase => tx.ins = {})
      BY <1>1, Zenon
    <2>4. r \in Cache /\ Sound(r, below) /\ z = TxOnMap(w, tx, h)
      <3> HIDE DEF s, tx, h
      <3> QED  BY <2>2, <2>3, RollStep, Zenon
    <2>5. x \in View /\ w \in View /\ y = TxOnMap(x, tx, h)
      BY <1>1, <2>1, <2>2, ThroughAt, Zenon
    <2> HIDE DEF s, tx, r, w, z, x, y, h
    <2>6. /\ \A o \in OutPoint : y[o] =
                 IF o \in tx.outs THEN h ELSE IF o \in tx.ins THEN NoCoin ELSE x[o]
          /\ \A o \in OutPoint : z[o] =
                 IF o \in tx.outs THEN h ELSE IF o \in tx.ins THEN NoCoin ELSE w[o]
      BY <2>3, <2>4, <2>5, TxOnMapAt
    <2>7. Moves(w, z, x, y)
      BY <2>6, Zenon DEF Moves
    <2>8. Moves(m, z, Before(b, 0), y)
      BY <2>2, <2>7, MovesOn, Zenon
    <2>9. OK(r, k)
      BY <2>4, <2>8, Zenon DEF y, z
    <2> QED  BY <1>3, <2>1, <2>9, Zenon DEF r, s, tx, h
  <1> HIDE DEF S
  <1>6. 0 \in Nat /\ n \in Nat /\ n \in 0..n
    BY <1>1
  <1>7. n \in S
    <2> HIDE DEF n
    <2>1. \A k \in (0 + 1)..n : k - 1 \in S => k \in S
      BY <1>5
    <2> QED  BY <1>4, <1>6, <2>1, CountingUp, Zenon
  <1>8. OK(f[n], n)
    BY <1>7, Zenon DEF S
  <1> QED  BY <1>1, <1>2, <1>8, Zenon DEF m

-----------------------------------------------------------------------------
(* What a replay does to the coins *)

\* From height to height along a branch.
LEMMA UpTheBranch ==
    ASSUME NEW b \in Block, NEW fork \in Ancestors[b]
    PROVE  /\ Height[fork] \in Nat /\ Height[b] \in Nat /\ Height[fork] <= Height[b]
           /\ GetAncestor(b, Height[fork]) = fork /\ GetAncestor(b, Height[b]) = b
           /\ \A h \in (Height[fork] + 1)..Height[b] :
                 /\ GetAncestor(b, h) \in Ancestors[b] /\ GetAncestor(b, h) \in Block \ {Genesis}
                 /\ Height[GetAncestor(b, h)] = h
                 /\ Parent[GetAncestor(b, h)] = GetAncestor(b, h - 1)
  <1>1. /\ fork \in Block /\ b \in Ancestors[b] /\ Ancestors[b] \subseteq Block
        /\ Height \in [Block -> Nat]
    BY AncestorsEnds, HeightDef, Zenon
  <1>2. Height[fork] \in Nat /\ Height[b] \in Nat /\ Height[fork] <= Height[b]
    BY <1>1, LowerBelow
  <1>3. /\ GetAncestor(b, Height[fork]) \in Ancestors[b]
        /\ Height[GetAncestor(b, Height[fork])] = Height[fork]
        /\ GetAncestor(b, Height[b]) \in Ancestors[b]
        /\ Height[GetAncestor(b, Height[b])] = Height[b]
    BY <1>2, GetAncestorDef
  <1>4. ASSUME NEW h \in (Height[fork] + 1)..Height[b]
        PROVE  /\ GetAncestor(b, h) \in Ancestors[b] /\ GetAncestor(b, h) \in Block \ {Genesis}
               /\ Height[GetAncestor(b, h)] = h
               /\ Parent[GetAncestor(b, h)] = GetAncestor(b, h - 1)
    <2> DEFINE a == GetAncestor(b, h)
               d == GetAncestor(b, h - 1)
    <2>1. h \in Int /\ h - 1 \in Int /\ h \in 0..Height[b] /\ h - 1 \in 0..Height[b] /\ h # 0
      BY <1>2
    <2>2. a \in Ancestors[b] /\ Height[a] = h /\ d \in Ancestors[b] /\ Height[d] = h - 1
      BY <2>1, GetAncestorDef, Zenon
    <2> HIDE DEF a, d
    <2>3. a \in Block /\ a # Genesis
      BY <1>1, <2>1, <2>2, HeightDef, Zenon
    <2>4. Parent[a] \in Ancestors[b] /\ Parent[a] \in Block /\ Height[a] = 1 + Height[Parent[a]]
      BY <1>1, <2>2, <2>3, ParentBelow, HeightDef, Zenon
    <2>5. Height[Parent[a]] = h - 1
      BY <1>1, <2>1, <2>2, <2>4
    <2>6. Parent[a] = d
      BY <2>2, <2>4, <2>5, OneAtAHeight, Zenon
    <2> QED  BY <2>2, <2>3, <2>6, Zenon DEF a, d
  <1> QED  BY <1>1, <1>2, <1>3, <1>4, OneAtAHeight, Zenon

\* The two recursions of ReplayBlocks.
Undone(old, lo, below, undo) ==
    LET undone[h \in lo..Height[old]] ==
            IF h = Height[old] THEN EmptyCache
            ELSE LET b == GetAncestor(old, h + 1)
                 IN DisconnectCoins(undone[h + 1], below, b, undo[b]).cache
    IN undone

Rolled(new, lo, below, start) ==
    LET rolled[h \in lo..Height[new]] ==
            IF h = lo THEN start
            ELSE RollforwardBlock(rolled[h - 1], below, GetAncestor(new, h))
    IN rolled

LEMMA ReplayDef ==
    ASSUME NEW new, NEW old
    PROVE  LET fork == IF old = NoBlock THEN Genesis ELSE LastCommonAncestor(old, new)
               start == IF old = NoBlock THEN EmptyCache
                        ELSE Undone(old, Height[fork], db.coins, index.undo)[Height[fork]]
           IN ReplayCoins(new, old) = Rolled(new, Height[fork], db.coins, start)[Height[new]]
  BY Zenon DEF ReplayCoins, Undone, Rolled

\* Undoing a branch down to the fork.
LEMMA UndoBranch ==
    ASSUME NEW old \in Block, NEW fork \in Ancestors[old], NEW below \in View, NEW undo,
           \A b \in Ancestors[old] : Height[b] > Height[fork] => UndoRight(b, undo[b])
    PROVE  LET c == Undone(old, Height[fork], below, undo)[Height[fork]]
           IN /\ c \in Cache /\ Sound(c, below)
              /\ Moves(below, Through(c, below), UtxoAt[old], UtxoAt[fork])
  <1> DEFINE lo == Height[fork]
             hi == Height[old]
             at(h) == GetAncestor(old, h)
             V == {c \in Cache : Sound(c, below)}
             step(u, h) == DisconnectCoins(u, below, at(h), undo[at(h)]).cache
             F == [p \in (lo..(hi - 1)) \X V |-> step(p[2], p[1] + 1)]
             IsIt(g) == g = [h \in lo..hi |-> IF h = hi THEN EmptyCache ELSE step(g[h + 1], h + 1)]
             r == CHOOSE g : IsIt(g)
  <1>1. Undone(old, lo, below, undo) = r
    BY Zenon DEF Undone
  <1>2. /\ lo \in Nat /\ hi \in Nat /\ lo <= hi /\ at(lo) = fork /\ at(hi) = old
        /\ \A h \in (lo + 1)..hi :
              at(h) \in Ancestors[old] /\ at(h) \in Block \ {Genesis} /\ Height[at(h)] = h
                /\ Parent[at(h)] = at(h - 1)
    BY UpTheBranch
  <1>3. EmptyCache \in V /\ Through(EmptyCache, below) = below
    BY EmptyCacheOK, Zenon
  <1> HIDE DEF lo, hi, at
  <1>4. ASSUME NEW h \in lo..(hi - 1), NEW u \in V
        PROVE  /\ step(u, h + 1) \in V
               /\ Moves(Through(u, below), Through(step(u, h + 1), below),
                        UtxoAt[at(h + 1)], UtxoAt[at(h)])
    <2> DEFINE b == at(h + 1)
    <2>1. h + 1 \in (lo + 1)..hi /\ (h + 1) - 1 = h
      BY <1>2
    <2>2. b \in Ancestors[old] /\ b \in Block \ {Genesis} /\ Height[b] = h + 1 /\ Parent[b] = at(h)
      BY <1>2, <2>1, Zenon
    <2>3. UndoRight(b, undo[b])
      BY <1>2, <2>2 DEF lo
    <2>4. u \in Cache /\ Sound(u, below)
      BY Zenon
    <2> HIDE DEF b
    <2> DEFINE d == DisconnectCoins(u, below, b, undo[b])
    <2>5. /\ d \in Disconnecting /\ Sound(d.cache, below)
          /\ Moves(Through(u, below), Through(d.cache, below), UtxoAt[b], UtxoAt[Parent[b]])
      BY <2>2, <2>3, <2>4, DisconnectBlockOK, Zenon
    <2> HIDE DEF d
    <2>6. d.cache \in Cache
      BY <2>5, Zenon DEF Disconnecting
    <2> QED  BY <2>2, <2>5, <2>6, Zenon DEF b, d
  <1> HIDE DEF V, step
  <1>5. /\ F \in [(lo..(hi - 1)) \X V -> V]
        /\ \A h \in lo..(hi - 1) : \A u \in V : F[<<h, u>>] = step(u, h + 1)
    BY <1>4, Zenon
  <1> HIDE DEF F
  <1>6. PICK f \in [lo..hi -> V] : Descends(f, lo, hi, EmptyCache, F)
    BY <1>2, <1>3, <1>5, DownExists, Zenon
  <1>7. IsIt(f)
    <2>1. ASSUME NEW h \in lo..hi PROVE f[h] = IF h = hi THEN EmptyCache ELSE step(f[h + 1], h + 1)
      <3>1. CASE h = hi
        BY <1>6, <3>1, Zenon DEF Descends
      <3>2. CASE h # hi
        <4>1. h \in lo..(hi - 1) /\ h + 1 \in lo..hi
          BY <1>2, <3>2
        <4>2. f[h] = F[<<h, f[h + 1]>>]
          BY <1>6, <4>1, Zenon DEF Descends
        <4> QED  BY <1>5, <3>2, <4>1, <4>2, Zenon
      <3> QED  BY <3>1, <3>2, Zenon
    <2> QED  BY <2>1, Zenon
  <1>8. IsIt(r)
    BY <1>7, Zenon
  <1> HIDE DEF r
  <1>9. r[hi] = EmptyCache /\ \A h \in lo..(hi - 1) : r[h] = step(r[h + 1], h + 1)
    BY <1>2, <1>8, SMTT(20)
  <1> DEFINE OK(h) == r[h] \in V /\ Moves(below, Through(r[h], below), UtxoAt[old], UtxoAt[at(h)])
             S == {h \in lo..hi : OK(h)}
  <1>10. hi \in S
    BY <1>2, <1>3, <1>9, MovesNot
  <1>11. ASSUME NEW h \in lo..(hi - 1), h + 1 \in S PROVE h \in S
    <2>1. h \in lo..hi /\ h + 1 \in lo..hi /\ OK(h + 1)
      BY <1>2, <1>11
    <2>2. r[h] \in V /\ Moves(Through(r[h + 1], below), Through(r[h], below),
                              UtxoAt[at(h + 1)], UtxoAt[at(h)])
      BY <1>4, <1>9, <2>1, ZenonT(30)
    <2>3. Moves(below, Through(r[h], below), UtxoAt[old], UtxoAt[at(h)])
      BY <2>1, <2>2, MovesOn, SMTT(20)
    <2> QED  BY <2>1, <2>2, <2>3, Zenon
  <1> HIDE DEF S
  <1>12. lo \in lo..hi
    BY <1>2
  <1>13. lo \in S
    BY <1>2, <1>10, <1>11, <1>12, CountingDown, Zenon
  <1>14. OK(lo)
    BY <1>13, Zenon DEF S
  <1> QED  BY <1>1, <1>2, <1>14, Zenon DEF V, lo

\* Rolling forward along a branch from the fork.
LEMMA RollBranch ==
    ASSUME NEW new \in Block, NEW fork \in Ancestors[new], NEW below \in View,
           NEW start \in Cache, Sound(start, below)
    PROVE  LET c == Rolled(new, Height[fork], below, start)[Height[new]]
           IN /\ c \in Cache /\ Sound(c, below)
              /\ Moves(Through(start, below), Through(c, below), UtxoAt[fork], UtxoAt[new])
  <1> DEFINE lo == Height[fork]
             hi == Height[new]
             at(h) == GetAncestor(new, h)
             V == {c \in Cache : Sound(c, below)}
             step(u, h) == RollforwardBlock(u, below, at(h))
             F == [p \in ((lo + 1)..hi) \X V |-> step(p[2], p[1])]
             IsIt(g) == g = [h \in lo..hi |-> IF h = lo THEN start ELSE step(g[h - 1], h)]
             r == CHOOSE g : IsIt(g)
             m == Through(start, below)
  <1>1. Rolled(new, lo, below, start) = r
    BY Zenon DEF Rolled
  <1>2. /\ lo \in Nat /\ hi \in Nat /\ lo <= hi /\ at(lo) = fork /\ at(hi) = new
        /\ \A h \in (lo + 1)..hi :
              at(h) \in Ancestors[new] /\ at(h) \in Block \ {Genesis} /\ Height[at(h)] = h
                /\ Parent[at(h)] = at(h - 1)
    BY UpTheBranch
  <1>3. start \in V
    BY Zenon
  <1> HIDE DEF lo, hi, at, m
  <1>4. ASSUME NEW h \in (lo + 1)..hi, NEW u \in V
        PROVE  /\ step(u, h) \in V
               /\ Moves(Through(u, below), Through(step(u, h), below),
                        UtxoAt[at(h - 1)], UtxoAt[at(h)])
    <2> DEFINE b == at(h)
    <2>1. b \in Block \ {Genesis} /\ Parent[b] = at(h - 1)
      BY <1>2, Zenon
    <2>2. u \in Cache /\ Sound(u, below)
      BY Zenon
    <2> HIDE DEF b
    <2> DEFINE d == RollforwardBlock(u, below, b)
    <2>3. /\ d \in Cache /\ Sound(d, below)
          /\ Moves(Through(u, below), Through(d, below), UtxoAt[Parent[b]], UtxoAt[b])
      BY <2>1, <2>2, RollforwardOK, Zenon
    <2> HIDE DEF d
    <2> QED  BY <2>1, <2>3, Zenon DEF b, d
  <1> HIDE DEF V, step
  <1>5. /\ F \in [((lo + 1)..hi) \X V -> V]
        /\ \A h \in (lo + 1)..hi : \A u \in V : F[<<h, u>>] = step(u, h)
    BY <1>4, Zenon
  <1> HIDE DEF F
  <1>6. PICK f \in [lo..hi -> V] : Climbs(f, lo, hi, start, F)
    BY <1>2, <1>3, <1>5, UpExists, Zenon
  <1>7. IsIt(f)
    <2>1. ASSUME NEW h \in lo..hi PROVE f[h] = IF h = lo THEN start ELSE step(f[h - 1], h)
      <3>1. CASE h = lo
        BY <1>6, <3>1, Zenon DEF Climbs
      <3>2. CASE h # lo
        <4>1. h \in (lo + 1)..hi /\ h - 1 \in lo..hi
          BY <1>2, <3>2
        <4>2. f[h] = F[<<h, f[h - 1]>>]
          BY <1>6, <4>1, Zenon DEF Climbs
        <4> QED  BY <1>5, <3>2, <4>1, <4>2, Zenon
      <3> QED  BY <3>1, <3>2, Zenon
    <2> QED  BY <2>1, Zenon
  <1>8. IsIt(r)
    BY <1>7, Zenon
  <1> HIDE DEF r
  <1>9. r[lo] = start /\ \A h \in (lo + 1)..hi : r[h] = step(r[h - 1], h)
    BY <1>2, <1>8, SMTT(20)
  <1> DEFINE OK(h) == r[h] \in V /\ Moves(m, Through(r[h], below), UtxoAt[fork], UtxoAt[at(h)])
             S == {h \in lo..hi : OK(h)}
  <1>10. lo \in S
    BY <1>2, <1>3, <1>9, MovesNot DEF m
  <1>11. ASSUME NEW h \in (lo + 1)..hi, h - 1 \in S PROVE h \in S
    <2>1. h \in lo..hi /\ h - 1 \in lo..hi /\ OK(h - 1)
      BY <1>2, <1>11
    <2>2. r[h] \in V /\ Moves(Through(r[h - 1], below), Through(r[h], below),
                              UtxoAt[at(h - 1)], UtxoAt[at(h)])
      BY <1>4, <1>9, <2>1, Zenon
    <2>3. Moves(m, Through(r[h], below), UtxoAt[fork], UtxoAt[at(h)])
      BY <2>1, <2>2, MovesOn
    <2> QED  BY <2>1, <2>2, <2>3, Zenon
  <1> HIDE DEF S
  <1>12. hi \in lo..hi
    BY <1>2
  <1>13. hi \in S
    BY <1>2, <1>10, <1>11, <1>12, CountingUp, Zenon
  <1>14. OK(hi)
    BY <1>13, Zenon DEF S
  <1> QED  BY <1>1, <1>2, <1>14, Zenon DEF V, hi, m, lo

\* The coins that a database without a best block stands for: none.
Utxo(b) == IF b = NoBlock THEN [o \in OutPoint |-> NoCoin] ELSE UtxoAt[b]

LEMMA UtxoOK ==
    /\ \A b \in Block : NoBlock # b /\ Utxo(b) = UtxoAt[b]
    /\ \A b \in Block \cup {NoBlock} : Utxo(b) \in View
    /\ Utxo(NoBlock) = UtxoAt[Genesis]
  <1>1. [o \in OutPoint |-> NoCoin] \in View
    BY Zenon DEF View
  <1> QED  BY <1>1, UtxoDef, AncestryAssumption, Zenon DEF Utxo

\* The database is between two tips: each coin is that of the one or of the other.
Between(coins, old, new) ==
    \A o \in OutPoint : coins[o] = Utxo(old)[o] \/ coins[o] = Utxo(new)[o]

\* ReplayBlocks turns such a database into the newer tip's, seen through the cache.
LEMMA ReplayOK ==
    ASSUME NEW new \in Block, NEW old \in Block \cup {NoBlock}, db.coins \in View,
           Between(db.coins, old, new),
           old # NoBlock =>
               \A b \in Ancestors[old] \ Ancestors[new] : UndoRight(b, index.undo[b])
    PROVE  LET c == ReplayCoins(new, old)
           IN c \in Cache /\ Sound(c, db.coins) /\ Through(c, db.coins) = UtxoAt[new]
  <1> DEFINE below == db.coins
             fork == IF old = NoBlock THEN Genesis ELSE LastCommonAncestor(old, new)
             start == IF old = NoBlock THEN EmptyCache
                      ELSE Undone(old, Height[fork], below, index.undo)[Height[fork]]
             c == Rolled(new, Height[fork], below, start)[Height[new]]
  <1>1. ReplayCoins(new, old) = c
    BY ReplayDef, Zenon
  <1>2. fork \in Ancestors[new] /\ fork \in Block
    BY ForkDef, AncestorsEnds, AncestryAssumption, Zenon
  <1>3. /\ start \in Cache /\ Sound(start, below)
        /\ Moves(below, Through(start, below), Utxo(old), UtxoAt[fork])
    <2>1. CASE old = NoBlock
      <3>1. start = EmptyCache /\ fork = Genesis
        BY <2>1, Zenon
      <3>2. Through(EmptyCache, below) = below /\ EmptyCache \in Cache /\ Sound(EmptyCache, below)
        BY EmptyCacheOK, Zenon
      <3>3. Moves(below, below, Utxo(old), UtxoAt[Genesis])
        BY <2>1, UtxoOK, MovesNot, Zenon
      <3> HIDE DEF start, fork
      <3> QED  BY <3>1, <3>2, <3>3, Zenon
    <2>2. CASE old # NoBlock
      <3>1. old \in Block /\ fork = LastCommonAncestor(old, new)
        BY <2>2, Zenon
      <3>2. fork \in Ancestors[old] /\ Ancestors[fork] = Ancestors[old] \cap Ancestors[new]
        BY <3>1, ForkDef
      <3>3. start = Undone(old, Height[fork], below, index.undo)[Height[fork]]
        BY <2>2, Zenon
      <3> HIDE DEF fork, start
      <3>4. ASSUME NEW b \in Ancestors[old], Height[b] > Height[fork]
            PROVE  UndoRight(b, index.undo[b])
        <4>1. b \in Block /\ Height[b] \in Nat /\ Height[fork] \in Nat
          BY <1>2, <3>1, AncestorsEnds, HeightDef, Zenon
        <4>2. b \notin Ancestors[fork]
          BY <1>2, <3>4, <4>1, LowerBelow
        <4> QED  BY <2>2, <3>2, <4>2, Zenon
      <3> HIDE DEF below
      <3>5. below \in View
        BY Zenon DEF below
      <3>6. /\ start \in Cache /\ Sound(start, below)
            /\ Moves(below, Through(start, below), UtxoAt[old], UtxoAt[fork])
        BY <3>1, <3>2, <3>3, <3>4, <3>5, UndoBranch, Zenon
      <3> QED  BY <3>1, <3>6, UtxoOK, Zenon
    <2> QED  BY <2>1, <2>2, Zenon
  <1> HIDE DEF fork, start
  <1>4. /\ c \in Cache /\ Sound(c, below)
        /\ Moves(Through(start, below), Through(c, below), UtxoAt[fork], UtxoAt[new])
    BY <1>2, <1>3, RollBranch, Zenon
  <1> HIDE DEF c
  <1>5. Moves(below, Through(c, below), Utxo(old), UtxoAt[new])
    BY <1>3, <1>4, MovesOn, Zenon
  <1>6. /\ Through(c, below) \in View /\ UtxoAt[new] \in View
        /\ \A o \in OutPoint : below[o] = Utxo(old)[o] \/ below[o] = UtxoAt[new][o]
    BY <1>4, ThroughAt, UtxoOK, Zenon DEF Between
  <1>7. Through(c, below) = UtxoAt[new]
    BY <1>5, <1>6, MovesAll
  <1> QED  BY <1>1, <1>4, <1>7, Zenon

-----------------------------------------------------------------------------
(* Writing a view to CoinsTip() *)

LEMMA MergeAt ==
    ASSUME NEW p \in Slot, NEW c \in Slot, NEW v \in Coins,
           SoundAt(p, v), SoundAt(c, Seen(p, v))
    PROVE  /\ MergeEntry(p, c) \in Slot
           /\ SoundAt(MergeEntry(p, c), v)
           /\ Seen(MergeEntry(p, c), v) = Seen(c, Seen(p, v))
  <1>1. CASE c = NoEntry \/ ~Dirty(c)
    BY <1>1, Zenon DEF MergeEntry, SoundAt, Seen
  <1>2. CASE c # NoEntry /\ Dirty(c) /\ p = NoEntry
    <2> DEFINE e == [coin |-> c.coin, flags |-> {"DIRTY"} \cup (c.flags \cap {"FRESH"})]
    <2>1. /\ e \in Entry /\ e # NoEntry /\ e.coin = c.coin
          /\ e.flags = {"DIRTY"} \cup (c.flags \cap {"FRESH"})
      BY <1>2, EntryParts, Zenon DEF Slot, Flag
    <2>2. CASE Fresh(c) /\ c.coin = NoCoin
      BY <1>2, <2>2, Zenon DEF MergeEntry, SoundAt, Seen, Slot
    <2>3. CASE ~(Fresh(c) /\ c.coin = NoCoin)
      <3>1. MergeEntry(p, c) = e
        BY <1>2, <2>3, Zenon DEF MergeEntry
      <3> HIDE DEF e
      <3> QED  BY <1>2, <2>1, <3>1, Zenon DEF SoundAt, Seen, Slot, Dirty, Fresh
    <2> QED  BY <2>2, <2>3, Zenon
  <1>3. CASE c # NoEntry /\ Dirty(c) /\ p # NoEntry
    <2> DEFINE e == [coin |-> c.coin, flags |-> p.flags \cup {"DIRTY"}]
    <2>1. e \in Entry /\ e # NoEntry /\ e.coin = c.coin /\ e.flags = p.flags \cup {"DIRTY"}
      BY <1>3, EntryParts, Zenon DEF Slot, Flag
    <2>2. CASE Fresh(p) /\ c.coin = NoCoin
      BY <1>3, <2>2, Zenon DEF MergeEntry, SoundAt, Seen, Slot
    <2>3. CASE ~(Fresh(p) /\ c.coin = NoCoin)
      <3>1. MergeEntry(p, c) = e
        BY <1>3, <2>3, Zenon DEF MergeEntry
      <3> HIDE DEF e
      <3> QED  BY <1>3, <2>1, <3>1, Zenon DEF SoundAt, Seen, Slot, Dirty, Fresh
    <2> QED  BY <2>2, <2>3, Zenon
  <1> QED  BY <1>1, <1>2, <1>3, Zenon

LEMMA MergeOK ==
    ASSUME NEW p \in Cache, NEW c \in Cache, NEW below \in View,
           Sound(p, below), Sound(c, Through(p, below))
    PROVE  /\ BatchWrite(p, c) \in Cache /\ Sound(BatchWrite(p, c), below)
           /\ Through(BatchWrite(p, c), below) = Through(c, Through(p, below))
  <1> DEFINE r == BatchWrite(p, c)
             m == Through(p, below)
  <1>1. m \in View /\ \A o \in OutPoint : m[o] = Seen(p[o], below[o])
    BY ThroughAt, Zenon
  <1>2. ASSUME NEW o \in OutPoint
        PROVE  /\ r[o] = MergeEntry(p[o], c[o]) /\ r[o] \in Slot
               /\ SoundAt(r[o], below[o])
               /\ Seen(r[o], below[o]) = Seen(c[o], m[o])
    <2>1. r[o] = MergeEntry(p[o], c[o])
      BY Zenon DEF BatchWrite
    <2>2. p[o] \in Slot /\ c[o] \in Slot /\ below[o] \in Coins
      BY Zenon DEF Cache, View, Slot, Coins
    <2>3. SoundAt(p[o], below[o]) /\ SoundAt(c[o], Seen(p[o], below[o]))
      BY <1>1, Zenon DEF Sound
    <2> HIDE DEF r, m
    <2> QED  BY <1>1, <2>1, <2>2, <2>3, MergeAt
  <1>3. r \in Cache
    <2>1. r = [o \in OutPoint |-> MergeEntry(p[o], c[o])]
      BY Zenon DEF BatchWrite
    <2> HIDE DEF r
    <2> QED  BY <1>2, <2>1, Zenon DEF Cache, Slot
  <1> HIDE DEF r, m
  <1>4. Sound(r, below)
    BY <1>2, Zenon DEF Sound
  <1>5. Through(r, below) = Through(c, m)
    BY <1>1, <1>2, <1>3, ThroughAt, SameView
  <1> QED  BY <1>3, <1>4, <1>5, Zenon DEF r, m

\* Reading coins through CoinsTip() changes what it holds, not what it answers.
LEMMA FetchedOK ==
    ASSUME NEW touched, tip \in Cache, db.coins \in View, Sound(tip, db.coins)
    PROVE  /\ Fetched(touched) \in Cache /\ Sound(Fetched(touched), db.coins)
           /\ Through(Fetched(touched), db.coins) = Through(tip, db.coins)
  <1> DEFINE r == Fetched(touched)
  <1>1. ASSUME NEW o \in OutPoint
        PROVE  /\ r[o] \in Slot /\ SoundAt(r[o], db.coins[o])
               /\ Seen(r[o], db.coins[o]) = Seen(tip[o], db.coins[o])
    <2>1. r[o] = IF o \in touched THEN FetchCoin(tip, db.coins, o)[o] ELSE tip[o]
      BY Zenon DEF Fetched
    <2>2. tip[o] \in Slot /\ SoundAt(tip[o], db.coins[o])
      BY Zenon DEF Cache, Slot, Sound
    <2> HIDE DEF r
    <2> QED  BY <2>1, <2>2, FetchAt
  <1>2. r \in Cache
    <2>1. r = [o \in OutPoint |-> r[o]]
      BY Zenon DEF Fetched
    <2> HIDE DEF r
    <2> QED  BY <1>1, <2>1, Zenon DEF Cache, Slot
  <1> HIDE DEF r
  <1>3. Sound(r, db.coins)
    BY <1>1, Zenon DEF Sound
  <1>4. Through(r, db.coins) = Through(tip, db.coins)
    BY <1>1, <1>2, ThroughAt, SameView
  <1> QED  BY <1>2, <1>3, <1>4, ZenonT(30) DEF r

-----------------------------------------------------------------------------
(* The inductive invariant *)

\* A coins database that is between no two tips holds its best block's coins; one that
\* is names no best block, and each coin is that of the one tip or of the other.
Durable(d) ==
    IF d.heads = <<>> THEN d.coins = Utxo(d.best)
    ELSE d.best = NoBlock /\ Between(d.coins, d.heads[2], d.heads[1])

\* The undo data on disk and in memory is what ConnectBlock found.
UndoOK(i) == \A b \in Block \ {Genesis} : i.undo[b] # NoUndo => UndoRight(b, i.undo[b])

TipOK ==
    Idle => /\ db.heads = <<>>
            /\ Sound(tip, db.coins)
            /\ Through(tip, db.coins) = Utxo(tipBest)

\* Every coin of the new tip is in the database, or on its way there.
FlushOK ==
    flush # NoFlush =>
        /\ flush.hash \in Block /\ flush.hash = tipBest
        /\ db.heads # <<>> => db.heads[1] = flush.hash
        /\ \A o \in flush.todo : tip[o] # NoEntry /\ tip[o].coin = UtxoAt[flush.hash][o]
        /\ \A o \in OutPoint \ flush.todo : db.coins[o] = UtxoAt[flush.hash][o]

BlockOrNone == Block \cup {NoBlock}
Database == [coins : View, best : BlockOrNone, mweb : BlockOrNone,
             heads : {<<>>} \cup (Block \X BlockOrNone)]
Index == [data : SUBSET Block, undo : [Block -> View \cup {NoUndo}], pruned : SUBSET Prunable]

Typed ==
    /\ db \in Database /\ synced \in Database
    /\ diskIndex \in Index /\ index \in Index
    /\ node \in {"down", "loading", "running", "failed"}
    /\ tip \in Cache /\ tipBest \in BlockOrNone
    /\ mweb \in [state : BlockOrNone, header : BlockOrNone]
    /\ flush \in [todo : SUBSET OutPoint, hash : BlockOrNone]
    /\ crashes \in 0..MaxCrashes

IInv ==
    /\ Typed
    /\ Durable(db) /\ Durable(synced)
    /\ UndoOK(index) /\ UndoOK(diskIndex)
    /\ TipOK
    /\ FlushOK
    /\ node \in {"down", "failed"} => flush = NoFlush
    /\ node = "down" => tip = EmptyCache

LEMMA IInvImplies == IInv => CoinsMatchBestBlock /\ NamedStateIsComplete /\ FlushResumesTransition
  <1> SUFFICES ASSUME IInv
               PROVE  CoinsMatchBestBlock /\ NamedStateIsComplete /\ FlushResumesTransition
    BY Zenon
  <1>1. TypeOK
    BY Zenon DEF IInv, Typed, TypeOK, BlockOrNone, Database, Index
  <1>2. CoinsMatchBestBlock
    BY Zenon DEF IInv, TipOK, CoinsMatchBestBlock, Utxo
  <1>3. ASSUME NEW d \in {db, synced}, d.best # NoBlock
        PROVE  d.coins = UtxoAt[d.best] /\ d.heads = <<>>
    BY <1>3, Zenon DEF IInv, Durable, Utxo
  <1>4. FlushResumesTransition
    BY Zenon DEF IInv, FlushOK, FlushResumesTransition
  <1> QED  BY <1>1, <1>2, <1>3, <1>4, Zenon DEF NamedStateIsComplete

LEMMA OneMore ==
    ASSUME NEW n \in 0..MaxCrashes, n < MaxCrashes
    PROVE  n + 1 \in 0..MaxCrashes
  BY RecoveryAssumption

LEMMA Parts ==
    /\ \A d \in Database : /\ d.coins \in View /\ d.best \in BlockOrNone /\ d.mweb \in BlockOrNone
                           /\ d.heads = <<>> \/ d.heads \in Block \X BlockOrNone
    /\ \A i \in Index : /\ i.data \in SUBSET Block /\ i.pruned \in SUBSET Prunable
                        /\ i.undo \in [Block -> View \cup {NoUndo}]
    /\ NoFlush.todo = {} /\ NoFlush.hash = NoBlock /\ NoBlock \notin Block
    /\ NoFlush \in [todo : SUBSET OutPoint, hash : BlockOrNone]
    /\ EmptyCache \in Cache
  BY AncestryAssumption, Zenon DEF Database, Index, NoFlush, BlockOrNone, EmptyCache, Cache

LEMMA IInvInit == Init => IInv
  <1> SUFFICES ASSUME Init PROVE IInv
    BY Zenon
  <1> DEFINE none == [o \in OutPoint |-> NoCoin]
  <1>1. none \in View /\ Utxo(NoBlock) = none
    BY Zenon DEF View, Utxo
  <1>2. /\ db = [coins |-> none, best |-> NoBlock, heads |-> <<>>, mweb |-> NoBlock]
        /\ synced = db
    BY Zenon DEF Init
  <1> HIDE DEF none
  <1>3. /\ db \in Database /\ db.coins = none /\ db.best = NoBlock /\ db.heads = <<>>
        /\ Durable(db)
    BY <1>1, <1>2, Zenon DEF Database, BlockOrNone, Durable
  <1>4. /\ index \in Index /\ diskIndex \in Index
        /\ \A b \in Block : index.undo[b] = NoUndo /\ diskIndex.undo[b] = NoUndo
    BY AncestryAssumption, Zenon DEF Init, Index
  <1>5. Typed
    <2>1. 0 \in 0..MaxCrashes
      BY RecoveryAssumption
    <2> QED  BY <1>2, <1>3, <1>4, <2>1, Parts, Zenon DEF Init, Typed, BlockOrNone
  <1>6. TipOK
    <2>1. Sound(EmptyCache, none) /\ Through(EmptyCache, none) = none
      BY <1>1, EmptyCacheOK, Zenon
    <2> QED  BY <1>1, <1>3, <2>1, Zenon DEF Init, TipOK
  <1>7. FlushOK /\ flush = NoFlush /\ node = "running"
    BY Zenon DEF Init, FlushOK
  <1>8. UndoOK(index) /\ UndoOK(diskIndex)
    BY <1>4, Zenon DEF UndoOK
  <1> QED  BY <1>2, <1>3, <1>5, <1>6, <1>7, <1>8, Zenon DEF IInv

\* AcceptBlock, WriteBlockIndex, Sync and a crash.
LEMMA AcceptBlockStep ==
    ASSUME IInv, NEW b \in Block, AcceptBlock(b)
    PROVE  IInv'
  <1>1. index \in Index /\ index' = [index EXCEPT !.data = @ \cup {b}]
    BY Zenon DEF IInv, Typed, AcceptBlock
  <1>2. index' \in Index /\ index'.undo = index.undo
    BY <1>1, Zenon DEF Index
  <1> QED  BY <1>2, Zenon DEF IInv, Typed, AcceptBlock, Durable, UndoOK, TipOK, Idle, FlushOK

LEMMA WriteBlockIndexStep ==
    ASSUME IInv, WriteBlockIndex
    PROVE  IInv'
  BY Zenon DEF IInv, Typed, WriteBlockIndex, Durable, UndoOK, TipOK, Idle, FlushOK

LEMMA SyncStep ==
    ASSUME IInv, Sync
    PROVE  IInv'
  BY Zenon DEF IInv, Typed, Sync, volatile, Durable, UndoOK, TipOK, Idle, FlushOK

LEMMA StutterStep ==
    ASSUME IInv, UNCHANGED vars
    PROVE  IInv'
  BY Zenon DEF IInv, Typed, vars, Durable, UndoOK, TipOK, Idle, FlushOK

LEMMA CrashStep ==
    ASSUME IInv, Crash
    PROVE  IInv'
  <1>1. /\ db' \in Database /\ Durable(db') /\ synced' = synced
        /\ diskIndex' = diskIndex /\ index' = diskIndex
    BY Zenon DEF IInv, Typed, Crash
  <1>2. /\ node' = "down" /\ tip' = EmptyCache /\ flush' = NoFlush
        /\ tipBest' = NoBlock /\ mweb' = [state |-> NoBlock, header |-> NoBlock]
        /\ crashes' \in 0..MaxCrashes
    <2>1. crashes \in 0..MaxCrashes /\ crashes < MaxCrashes
      BY Zenon DEF Crash, IInv, Typed
    <2> QED  BY <2>1, OneMore, Zenon DEF Crash
  <1>3. Typed'
    BY <1>1, <1>2, Parts, Zenon DEF Typed, IInv, BlockOrNone
  <1>4. TipOK' /\ FlushOK'
    BY <1>2, Zenon DEF TipOK, Idle, FlushOK
  <1> QED  BY <1>1, <1>2, <1>3, <1>4, Zenon DEF IInv, UndoOK, Durable

\* Genesis has no transactions.
LEMMA ConnectGenesis ==
    ASSUME NEW below
    PROVE  ConnectCoins(below, Genesis) = NothingDone
  <1> DEFINE n == Len(Vtx[Genesis])
             IsIt(g) == g = [k \in 0..n |->
                 IF k = 0 THEN NothingDone
                 ELSE UpdateCoins(g[k - 1], below, Vtx[Genesis][k], Height[Genesis])]
             r == CHOOSE g : IsIt(g)
             f == [k \in 0..n |-> NothingDone]
  <1>1. n = 0
    BY VtxAssumption
  <1>2. ConnectCoins(below, Genesis) = r[n]
    BY Zenon DEF ConnectCoins, NothingDone
  <1> HIDE DEF n
  <1>3. IsIt(f)
    BY <1>1
  <1>4. IsIt(r)
    BY <1>3, Zenon
  <1> HIDE DEF r
  <1>5. r[0] = NothingDone
    BY <1>1, <1>4
  <1> QED  BY <1>1, <1>2, <1>5, Zenon

\* A view is connected over CoinsTip() and written to it.
LEMMA ConnectOK ==
    ASSUME IInv, Idle, NEW b \in Block,
           IF b = Genesis THEN tipBest = NoBlock ELSE tipBest = Parent[b]
    PROVE  LET s == ConnectCoins(Through(tip, db.coins), b)
               t == BatchWrite(Fetched(TouchedBy(b)), s.cache)
           IN /\ t \in Cache /\ Sound(t, db.coins) /\ Through(t, db.coins) = UtxoAt[b]
              /\ b # Genesis => UndoRight(b, s.undo)
  <1> DEFINE m == Through(tip, db.coins)
             s == ConnectCoins(m, b)
             p == Fetched(TouchedBy(b))
             t == BatchWrite(p, s.cache)
  <1>1. tip \in Cache /\ db.coins \in View /\ Sound(tip, db.coins) /\ m = Utxo(tipBest)
    BY Parts, Zenon DEF IInv, Typed, TipOK
  <1>2. p \in Cache /\ Sound(p, db.coins) /\ Through(p, db.coins) = m
    <2> DEFINE touched == TouchedBy(b)
    <2> HIDE DEF touched
    <2>1. /\ Fetched(touched) \in Cache /\ Sound(Fetched(touched), db.coins)
          /\ Through(Fetched(touched), db.coins) = Through(tip, db.coins)
      BY <1>1, FetchedOK, Zenon
    <2> QED  BY <2>1, Zenon DEF touched
  <1> HIDE DEF p
  <1>3. /\ s.cache \in Cache /\ Sound(s.cache, m) /\ Through(s.cache, m) = UtxoAt[b]
        /\ b # Genesis => UndoRight(b, s.undo)
    <2>1. CASE b = Genesis
      <3>1. m = UtxoAt[Genesis] /\ m \in View
        BY <1>1, <2>1, UtxoOK, Zenon DEF BlockOrNone
      <3>2. s.cache = EmptyCache
        BY <2>1, ConnectGenesis, NothingDoneOK, Zenon
      <3> HIDE DEF s, m
      <3> QED  BY <2>1, <3>1, <3>2, EmptyCacheOK, Zenon
    <2>2. CASE b # Genesis
      <3>1. m = UtxoAt[Parent[b]]
        BY <1>1, <2>2, UtxoOK, AncestryAssumption, Zenon
      <3>2. b \in Block \ {Genesis}
        BY <2>2, Zenon
      <3> HIDE DEF m
      <3>3. /\ s \in Connecting /\ Sound(s.cache, m) /\ Through(s.cache, m) = UtxoAt[b]
            /\ UndoRight(b, s.undo)
        BY <3>1, <3>2, ConnectBlockOK, ZenonT(30)
      <3> HIDE DEF s
      <3> QED  BY <3>3, Zenon DEF Connecting
    <2> QED  BY <2>1, <2>2, Zenon
  <1> HIDE DEF s
  <1>4. /\ t \in Cache /\ Sound(t, db.coins)
        /\ Through(t, db.coins) = Through(s.cache, m)
    BY <1>1, <1>2, <1>3, MergeOK
  <1> HIDE DEF m
  <1> QED  BY <1>3, <1>4, Zenon DEF s, p, m

LEMMA ConnectTipStep ==
    ASSUME IInv, NEW b \in Block, ConnectTip(b)
    PROVE  IInv'
  <1> DEFINE s == ConnectCoins(Through(tip, db.coins), b)
             t == BatchWrite(Fetched(TouchedBy(b)), s.cache)
  <1>1. /\ Idle /\ (IF b = Genesis THEN tipBest = NoBlock ELSE tipBest = Parent[b])
        /\ tip' = t /\ tipBest' = b
        /\ index' = IF index.undo[b] = NoUndo /\ b # Genesis
                    THEN [index EXCEPT !.undo[b] = s.undo] ELSE index
        /\ UNCHANGED <<db, synced, diskIndex, node, flush, crashes>>
    BY Zenon DEF ConnectTip
  <1>2. mweb' \in [state : BlockOrNone, header : BlockOrNone]
    BY Zenon DEF ConnectTip, MwebFlush, IInv, Typed, BlockOrNone
  <1>3. /\ t \in Cache /\ Sound(t, db.coins) /\ Through(t, db.coins) = UtxoAt[b]
        /\ b # Genesis => UndoRight(b, s.undo)
    BY <1>1, ConnectOK, Zenon
  <1> HIDE DEF s, t
  <1>4. index \in Index /\ UndoOK(index)
    BY Zenon DEF IInv, Typed
  <1>5. index' \in Index /\ UndoOK(index')
    <2>1. CASE index.undo[b] = NoUndo /\ b # Genesis
      <3>1. s.undo \in View /\ UndoRight(b, s.undo)
        BY <1>3, <2>1, Zenon DEF UndoRight
      <3>2. index' = [index EXCEPT !.undo[b] = s.undo]
        BY <1>1, <2>1, Zenon
      <3>3. /\ index' \in Index
            /\ \A c \in Block : index'.undo[c] = IF c = b THEN s.undo ELSE index.undo[c]
        BY <1>4, <3>1, <3>2, Zenon DEF Index
      <3> QED  BY <1>4, <3>1, <3>3, Zenon DEF UndoOK
    <2>2. CASE ~(index.undo[b] = NoUndo /\ b # Genesis)
      BY <1>1, <1>4, <2>2, Zenon
    <2> QED  BY <2>1, <2>2, Zenon
  <1>6. Typed'
    BY <1>1, <1>2, <1>3, <1>5, Zenon DEF IInv, Typed, BlockOrNone
  <1>7. TipOK'
    BY <1>1, <1>3, UtxoOK, Zenon DEF IInv, TipOK, Idle
  <1>8. node' = "running" /\ flush' = NoFlush
    BY <1>1, Zenon DEF Idle
  <1>9. FlushOK'
    BY <1>8, Zenon DEF FlushOK
  <1> QED  BY <1>1, <1>5, <1>6, <1>7, <1>8, <1>9, Zenon DEF IInv, Durable, UndoOK

\* The tip's block is undone with its undo data on a view over CoinsTip().
LEMMA DisconnectOK ==
    ASSUME IInv, Idle, NEW b \in Block \ {Genesis}, tipBest = b, index.undo[b] # NoUndo
    PROVE  LET r == DisconnectCoins(EmptyCache, Through(tip, db.coins), b, index.undo[b])
               t == BatchWrite(Fetched(TouchedBy(b)), r.cache)
           IN /\ r.fClean
              /\ t \in Cache /\ Sound(t, db.coins) /\ Through(t, db.coins) = UtxoAt[Parent[b]]
  <1> DEFINE m == Through(tip, db.coins)
             u == index.undo[b]
             r == DisconnectCoins(EmptyCache, m, b, u)
             p == Fetched(TouchedBy(b))
             t == BatchWrite(p, r.cache)
  <1>1. /\ tip \in Cache /\ db.coins \in View /\ Sound(tip, db.coins)
        /\ m = UtxoAt[b] /\ m \in View /\ UtxoAt[Parent[b]] \in View
    <2>1. /\ tip \in Cache /\ db.coins \in View /\ Sound(tip, db.coins) /\ m = Utxo(tipBest)
      BY Parts, Zenon DEF IInv, Typed, TipOK
    <2>2. UtxoAt[b] \in View /\ UtxoAt[Parent[b]] \in View /\ Utxo(b) = UtxoAt[b]
      BY UtxoOK, UtxoDef, AncestryAssumption, Zenon
    <2> HIDE DEF m
    <2> QED  BY <2>1, <2>2, Zenon
  <1>2. p \in Cache /\ Sound(p, db.coins) /\ Through(p, db.coins) = m
    <2> DEFINE touched == TouchedBy(b)
    <2> HIDE DEF touched
    <2>1. /\ Fetched(touched) \in Cache /\ Sound(Fetched(touched), db.coins)
          /\ Through(Fetched(touched), db.coins) = Through(tip, db.coins)
      BY <1>1, FetchedOK, Zenon
    <2> QED  BY <2>1, Zenon DEF touched
  <1> HIDE DEF p
  <1>3. UndoRight(b, u)
    BY Zenon DEF IInv, UndoOK
  <1>4. /\ EmptyCache \in Cache /\ Sound(EmptyCache, m) /\ Through(EmptyCache, m) = m
    BY <1>1, EmptyCacheOK, Zenon
  <1> HIDE DEF m, u
  <1>5. /\ r \in Disconnecting /\ Sound(r.cache, m) /\ r.fClean
        /\ Moves(m, Through(r.cache, m), UtxoAt[b], UtxoAt[Parent[b]])
    BY <1>1, <1>3, <1>4, DisconnectBlockOK, Zenon
  <1> HIDE DEF r
  <1>6. r.cache \in Cache
    BY <1>5, Zenon DEF Disconnecting
  <1>7. Through(r.cache, m) = UtxoAt[Parent[b]]
    <2>1. Through(r.cache, m) \in View
      BY <1>1, <1>6, ThroughAt, Zenon
    <2>2. \A o \in OutPoint : m[o] = UtxoAt[b][o]
      BY <1>1, Zenon
    <2> QED  BY <1>1, <1>5, <2>1, <2>2, MovesAll, Zenon
  <1>8. /\ t \in Cache /\ Sound(t, db.coins) /\ Through(t, db.coins) = Through(r.cache, m)
    BY <1>1, <1>2, <1>5, <1>6, MergeOK, SMTT(20)
  <1> QED  BY <1>5, <1>7, <1>8, Zenon DEF r, p, m, u

LEMMA DisconnectTipStep ==
    ASSUME IInv, DisconnectTip
    PROVE  IInv'
  <1> DEFINE b == tipBest
             r == DisconnectCoins(EmptyCache, Through(tip, db.coins), b, index.undo[b])
             t == BatchWrite(Fetched(TouchedBy(b)), r.cache)
  <1>1. /\ Idle /\ b \notin {NoBlock, Genesis}
        /\ UNCHANGED <<db, synced, diskIndex, index, flush, crashes>>
    BY Zenon DEF DisconnectTip
  <1>2. b \in Block \ {Genesis} /\ Parent[b] \in Block
    BY <1>1, AncestryAssumption, Zenon DEF IInv, Typed, BlockOrNone
  <1>3. CASE node' = "failed" /\ UNCHANGED <<tip, tipBest, mweb>>
    <2>1. Typed' /\ TipOK' /\ FlushOK' /\ flush' = NoFlush
      BY <1>1, <1>3, Zenon DEF IInv, Typed, TipOK, FlushOK, Idle
    <2> QED  BY <1>1, <1>3, <2>1, Zenon DEF IInv, Durable, UndoOK
  <1>4. CASE /\ index.undo[b] # NoUndo /\ tip' = t /\ tipBest' = Parent[b] /\ node' = node
             /\ mweb' = IF b \in MwebBlocks
                        THEN MwebFlush([state |-> MwebAt(Parent[b]), header |-> MwebAt(Parent[b])], mweb)
                        ELSE mweb
    <2>1. t \in Cache /\ Sound(t, db.coins) /\ Through(t, db.coins) = UtxoAt[Parent[b]]
      BY <1>1, <1>2, <1>4, DisconnectOK, Zenon
    <2> HIDE DEF r, t
    <2>2. mweb' \in [state : BlockOrNone, header : BlockOrNone]
      <3>1. MwebAt(Parent[b]) \in BlockOrNone
        BY <1>2, Zenon DEF MwebAt, BlockOrNone
      <3> QED  BY <1>4, <3>1, Zenon DEF MwebFlush, IInv, Typed
    <2>3. Typed'
      BY <1>1, <1>2, <1>4, <2>1, <2>2, Zenon DEF IInv, Typed, BlockOrNone
    <2>4. TipOK'
      BY <1>1, <1>2, <1>4, <2>1, UtxoOK, Zenon DEF IInv, TipOK, Idle
    <2>5. node' = "running" /\ flush' = NoFlush
      BY <1>1, <1>4, Zenon DEF Idle
    <2>6. FlushOK'
      BY <2>5, Zenon DEF FlushOK
    <2> QED  BY <1>1, <2>3, <2>4, <2>5, <2>6, Zenon DEF IInv, Durable, UndoOK
  <1> QED  BY <1>3, <1>4, Zenon DEF DisconnectTip

\* A cache that answers new's coins: what is not DIRTY in it, the database has already.
LEMMA DirtyRest ==
    ASSUME NEW c \in Cache, db.coins \in View, NEW new \in Block,
           Sound(c, db.coins), Through(c, db.coins) = UtxoAt[new]
    PROVE  /\ \A o \in DirtyOutPoints(c) : c[o] # NoEntry /\ c[o].coin = UtxoAt[new][o]
           /\ \A o \in OutPoint \ DirtyOutPoints(c) : db.coins[o] = UtxoAt[new][o]
  <1>1. \A o \in OutPoint : UtxoAt[new][o] = Seen(c[o], db.coins[o])
    BY ThroughAt, Zenon
  <1>2. \A o \in OutPoint : SoundAt(c[o], db.coins[o])
    BY Zenon DEF Sound
  <1> QED  BY <1>1, <1>2, Zenon DEF DirtyOutPoints, Seen, SoundAt

LEMMA BeginFlushStep ==
    ASSUME IInv, NEW files \in SUBSET FindFilesToPrune, BeginFlush(files)
    PROVE  IInv'
  <1>1. /\ Idle /\ tipBest # NoBlock
        /\ index' = PruneOneBlockFile(files) /\ diskIndex' = index'
        /\ flush' = [todo |-> DirtyOutPoints(tip), hash |-> tipBest]
        /\ UNCHANGED <<db, synced, node, tip, tipBest, mweb, crashes>>
    BY Zenon DEF BeginFlush
  <1>2. /\ tipBest \in Block /\ tip \in Cache /\ db.coins \in View
        /\ db.heads = <<>> /\ Sound(tip, db.coins) /\ Through(tip, db.coins) = UtxoAt[tipBest]
    BY <1>1, Parts, UtxoOK, Zenon DEF IInv, Typed, TipOK, BlockOrNone
  <1>3. index' \in Index /\ UndoOK(index')
    <2>1. files \in SUBSET Prunable
      BY Zenon DEF FindFilesToPrune
    <2>2. index \in Index /\ UndoOK(index)
      BY Zenon DEF IInv, Typed
    <2>3. /\ index' \in Index
          /\ \A b \in Block : index'.undo[b] = IF b \in files THEN NoUndo ELSE index.undo[b]
      BY <1>1, <2>1, <2>2, Zenon DEF PruneOneBlockFile, Index
    <2> QED  BY <2>2, <2>3, Zenon DEF UndoOK
  <1>4. /\ \A o \in DirtyOutPoints(tip) : tip[o] # NoEntry /\ tip[o].coin = UtxoAt[tipBest][o]
        /\ \A o \in OutPoint \ DirtyOutPoints(tip) : db.coins[o] = UtxoAt[tipBest][o]
    BY <1>2, DirtyRest, Zenon
  <1>5. /\ flush' \in [todo : SUBSET OutPoint, hash : BlockOrNone]
        /\ flush'.todo = DirtyOutPoints(tip) /\ flush'.hash = tipBest /\ flush' # NoFlush
    <2>1. DirtyOutPoints(tip) \in SUBSET OutPoint
      BY Zenon DEF DirtyOutPoints
    <2>2. flush'.hash # NoFlush.hash
      BY <1>1, <1>2, Parts, Zenon
    <2> QED  BY <1>1, <1>2, <2>1, <2>2, Zenon DEF BlockOrNone
  <1>6. Typed'
    BY <1>1, <1>3, <1>5, Zenon DEF IInv, Typed
  <1>7. FlushOK'
    BY <1>1, <1>2, <1>4, <1>5, Zenon DEF FlushOK
  <1>8. TipOK' /\ node' = "running"
    BY <1>1, <1>5, Zenon DEF TipOK, Idle
  <1> QED  BY <1>1, <1>3, <1>6, <1>7, <1>8, Zenon DEF IInv, Durable, UndoOK

\* What a batch writes are coins of the new tip.
LEMMA WrittenOK ==
    ASSUME IInv, flush # NoFlush, NEW X \in SUBSET flush.todo
    PROVE  /\ Written(X) \in View
           /\ \A o \in OutPoint : Written(X)[o] =
                  IF o \in X THEN UtxoAt[flush.hash][o] ELSE db.coins[o]
  <1>1. /\ flush.todo \in SUBSET OutPoint /\ flush.hash \in Block
        /\ \A o \in X : tip[o].coin = UtxoAt[flush.hash][o]
        /\ UtxoAt[flush.hash] \in View /\ db.coins \in View
    BY Parts, UtxoDef, Zenon DEF IInv, Typed, FlushOK
  <1>2. \A o \in OutPoint : Written(X)[o] =
                  IF o \in X THEN UtxoAt[flush.hash][o] ELSE db.coins[o]
    BY <1>1, Zenon DEF Written
  <1>3. Written(X) = [o \in OutPoint |-> Written(X)[o]]
    BY Zenon DEF Written
  <1> QED  BY <1>1, <1>2, <1>3, Zenon DEF View

LEMMA PartialBatchStep ==
    ASSUME IInv, NEW X \in SUBSET flush.todo, PartialBatch(X)
    PROVE  IInv'
  <1> DEFINE w == Written(X)
             old == OldTip
  <1>1. /\ flush # NoFlush
        /\ db' = [db EXCEPT !.coins = w, !.best = NoBlock, !.heads = <<flush.hash, old>>]
        /\ flush' = [flush EXCEPT !.todo = @ \ X]
        /\ UNCHANGED <<synced, diskIndex, node, index, tip, tipBest, mweb, crashes>>
    BY Zenon DEF PartialBatch
  <1>2. /\ w \in View
        /\ \A o \in OutPoint : w[o] = IF o \in X THEN UtxoAt[flush.hash][o] ELSE db.coins[o]
    BY <1>1, WrittenOK, Zenon
  <1>3. /\ flush \in [todo : SUBSET OutPoint, hash : BlockOrNone] /\ db \in Database
        /\ flush.hash \in Block /\ flush.hash = tipBest
        /\ db.heads # <<>> => db.heads[1] = flush.hash
        /\ \A o \in flush.todo : tip[o] # NoEntry /\ tip[o].coin = UtxoAt[flush.hash][o]
        /\ \A o \in OutPoint \ flush.todo : db.coins[o] = UtxoAt[flush.hash][o]
        /\ Durable(db)
    BY <1>1, Zenon DEF IInv, Typed, FlushOK
  <1>4. old \in BlockOrNone /\ \A o \in OutPoint :
            db.coins[o] = Utxo(old)[o] \/ db.coins[o] = UtxoAt[flush.hash][o]
    <2>1. CASE db.heads = <<>>
      BY <1>3, <2>1, Parts, Zenon DEF Durable, OldTip
    <2>2. CASE db.heads # <<>>
      <3>1. db.best = NoBlock /\ Between(db.coins, db.heads[2], db.heads[1])
        BY <1>3, <2>2, Zenon DEF Durable
      <3>2. old = db.heads[2] /\ db.heads \in Block \X BlockOrNone
        BY <1>3, <2>2, <3>1, Parts, Zenon DEF OldTip
      <3> QED  BY <1>3, <2>2, <3>1, <3>2, UtxoOK, SMTT(20) DEF Between
    <2> QED  BY <2>1, <2>2, Zenon
  <1> HIDE DEF w, old
  <1>5. /\ db' \in Database /\ db'.coins = w /\ db'.best = NoBlock
        /\ db'.heads = <<flush.hash, old>>
    BY <1>1, <1>2, <1>3, <1>4, Zenon DEF Database, BlockOrNone
  <1>6. db'.heads # <<>> /\ db'.heads[1] = flush.hash /\ db'.heads[2] = old
    BY <1>5
  <1>7. /\ flush' \in [todo : SUBSET OutPoint, hash : BlockOrNone]
        /\ flush'.hash = flush.hash /\ flush'.todo = flush.todo \ X /\ flush' # NoFlush
    BY <1>1, <1>3, Parts, Zenon
  <1>8. Durable(db')
    <2>1. Between(w, old, flush.hash)
      BY <1>2, <1>3, <1>4, UtxoOK, Zenon DEF Between
    <2> QED  BY <1>5, <1>6, <2>1, Zenon DEF Durable
  <1>9. Typed'
    BY <1>1, <1>5, <1>7, Zenon DEF IInv, Typed
  <1>10. FlushOK'
    BY <1>1, <1>2, <1>3, <1>5, <1>6, <1>7, SMTT(20) DEF FlushOK
  <1>11. TipOK'
    BY <1>7, Zenon DEF TipOK, Idle
  <1> QED  BY <1>1, <1>8, <1>9, <1>10, <1>11, Zenon DEF IInv, Durable, UndoOK

LEMMA FinalBatchStep ==
    ASSUME IInv, FinalBatch
    PROVE  IInv'
  <1> DEFINE w == Written(flush.todo)
  <1>1. /\ flush # NoFlush
        /\ db' = [coins |-> w, best |-> flush.hash, heads |-> <<>>,
                  mweb |-> IF mweb.header = NoBlock THEN db.mweb ELSE mweb.state]
        /\ flush' = NoFlush /\ tip' = EmptyCache /\ node' = "running"
        /\ mweb' = [mweb EXCEPT !.state = db'.mweb]
        /\ UNCHANGED <<synced, diskIndex, index, tipBest, crashes>>
    BY Zenon DEF FinalBatch
  <1>2. /\ w \in View
        /\ \A o \in OutPoint :
              w[o] = IF o \in flush.todo THEN UtxoAt[flush.hash][o] ELSE db.coins[o]
    BY <1>1, WrittenOK, Zenon
  <1>3. /\ flush.hash \in Block /\ flush.hash = tipBest /\ UtxoAt[flush.hash] \in View
        /\ \A o \in OutPoint \ flush.todo : db.coins[o] = UtxoAt[flush.hash][o]
        /\ db \in Database /\ mweb \in [state : BlockOrNone, header : BlockOrNone]
    BY <1>1, UtxoDef, Zenon DEF IInv, Typed, FlushOK
  <1>4. w = UtxoAt[flush.hash]
    BY <1>2, <1>3, SameView
  <1> HIDE DEF w
  <1>5. /\ db' \in Database /\ db'.coins = UtxoAt[flush.hash] /\ db'.best = flush.hash
        /\ db'.heads = <<>> /\ db'.mweb \in BlockOrNone
    BY <1>1, <1>2, <1>3, <1>4, Zenon DEF Database, BlockOrNone
  <1>6. mweb' \in [state : BlockOrNone, header : BlockOrNone]
    BY <1>1, <1>3, <1>5, Zenon
  <1>7. Typed'
    BY <1>1, <1>5, <1>6, Parts, Zenon DEF IInv, Typed
  <1>8. Durable(db')
    BY <1>3, <1>5, UtxoOK, Zenon DEF Durable
  <1>9. TipOK'
    <2>1. Sound(EmptyCache, db'.coins) /\ Through(EmptyCache, db'.coins) = db'.coins
      BY <1>3, <1>5, EmptyCacheOK, Zenon
    <2> QED  BY <1>1, <1>3, <1>5, <2>1, UtxoOK, Zenon DEF TipOK
  <1>10. FlushOK'
    BY <1>1, Zenon DEF FlushOK
  <1> QED  BY <1>1, <1>7, <1>8, <1>9, <1>10, Zenon DEF IInv, Durable, UndoOK

LEMMA StartupStep ==
    ASSUME IInv, Startup
    PROVE  IInv'
  <1>1. /\ node = "down" /\ tip = EmptyCache /\ flush = NoFlush
        /\ UNCHANGED <<db, synced, diskIndex, index, crashes>>
        /\ db \in Database /\ Durable(db) /\ db.coins \in View /\ UndoOK(index)
    BY Parts, Zenon DEF Startup, IInv, Typed
  <1>2. ASSUME NEW b \in BlockOrNone PROVE MwebAt(b) \in BlockOrNone
    BY Zenon DEF MwebAt, BlockOrNone
  <1>3. CASE db.heads = <<>>
    <2>1. /\ node' \in {"running", "failed"} /\ tipBest' = db.best
          /\ mweb' = [state |-> db.mweb, header |-> MwebAt(db.best)]
          /\ UNCHANGED <<tip, flush>>
      BY <1>3, Zenon DEF Startup
    <2>2. Typed'
      BY <1>1, <1>2, <2>1, Parts, Zenon DEF IInv, Typed
    <2>3. TipOK'
      <3>1. Sound(EmptyCache, db.coins) /\ Through(EmptyCache, db.coins) = db.coins
        BY <1>1, EmptyCacheOK, Zenon
      <3> QED  BY <1>1, <1>3, <2>1, <3>1, Zenon DEF TipOK, Durable
    <2>4. FlushOK' /\ flush' = NoFlush /\ node' # "down"
      BY <1>1, <2>1, Zenon DEF FlushOK
    <2> QED  BY <1>1, <2>2, <2>3, <2>4, Zenon DEF IInv, Durable, UndoOK
  <1>4. CASE db.heads # <<>> /\ node' = "failed" /\ UNCHANGED <<tip, tipBest, mweb, flush>>
    BY <1>1, <1>4, Zenon DEF IInv, Typed, Durable, UndoOK, TipOK, Idle, FlushOK
  <1>5. CASE /\ db.heads # <<>> /\ ~ReplayFails(db.heads[1], db.heads[2])
             /\ node' = "loading" /\ tip' = ReplayCoins(db.heads[1], db.heads[2])
             /\ tipBest' = db.heads[1]
             /\ mweb' = IF db.heads[2] = NoBlock THEN [state |-> db.mweb, header |-> NoBlock]
                        ELSE ReplayMweb(db.heads[1], db.heads[2])
             /\ flush' = [todo |-> DirtyOutPoints(tip'), hash |-> db.heads[1]]
    <2> DEFINE new == db.heads[1]
               old == db.heads[2]
               c == ReplayCoins(new, old)
    <2>1. new \in Block /\ old \in BlockOrNone /\ Between(db.coins, old, new)
      BY <1>1, <1>5, Parts, Zenon DEF Durable
    <2>2. ASSUME old # NoBlock, NEW b \in Ancestors[old] \ Ancestors[new]
          PROVE  UndoRight(b, index.undo[b])
      <3>1. b \in Block \ {Genesis}
        BY <2>1, <2>2, AncestorsEnds, Zenon DEF BlockOrNone
      <3>2. index.undo[b] # NoUndo
        BY <1>5, <2>2, Zenon DEF ReplayFails
      <3> QED  BY <1>1, <3>1, <3>2, Zenon DEF UndoOK
    <2> HIDE DEF new, old
    <2>3. c \in Cache /\ Sound(c, db.coins) /\ Through(c, db.coins) = UtxoAt[new]
      BY <1>1, <2>1, <2>2, ReplayOK, Zenon DEF BlockOrNone
    <2>4. tip' = c /\ tipBest' = new /\ flush' = [todo |-> DirtyOutPoints(c), hash |-> new]
      BY <1>5, Zenon DEF new, old
    <2> HIDE DEF c
    <2>5. /\ flush' \in [todo : SUBSET OutPoint, hash : BlockOrNone]
          /\ flush'.todo = DirtyOutPoints(c) /\ flush'.hash = new /\ flush' # NoFlush
      <3>1. DirtyOutPoints(c) \in SUBSET OutPoint
        BY Zenon DEF DirtyOutPoints
      <3>2. flush'.hash # NoFlush.hash
        BY <2>1, <2>4, Parts, Zenon
      <3> QED  BY <2>1, <2>4, <3>1, <3>2, Zenon DEF BlockOrNone
    <2>6. mweb' \in [state : BlockOrNone, header : BlockOrNone]
      <3>1. db.mweb \in BlockOrNone /\ NoBlock \in BlockOrNone
        BY <1>1, Parts, Zenon DEF BlockOrNone
      <3>2. CASE old = NoBlock
        BY <1>5, <3>1, <3>2, Zenon DEF old
      <3>3. CASE old # NoBlock
        <4>1. LastCommonAncestor(old, new) \in BlockOrNone
          BY <2>1, <3>3, ForkDef, AncestorsEnds, Zenon DEF BlockOrNone
        <4>2. mweb' = ReplayMweb(new, old)
          BY <1>5, <3>3, Zenon DEF new, old
        <4> QED  BY <1>2, <3>1, <4>1, <4>2, Zenon DEF ReplayMweb
      <3> QED  BY <3>2, <3>3, Zenon
    <2>7. Typed'
      BY <1>1, <1>5, <2>1, <2>3, <2>4, <2>5, <2>6, Zenon DEF IInv, Typed, BlockOrNone
    <2>8. /\ \A o \in DirtyOutPoints(c) : c[o] # NoEntry /\ c[o].coin = UtxoAt[new][o]
          /\ \A o \in OutPoint \ DirtyOutPoints(c) : db.coins[o] = UtxoAt[new][o]
      BY <1>1, <2>1, <2>3, DirtyRest, Zenon
    <2>9. FlushOK'
      BY <1>1, <2>1, <2>4, <2>5, <2>8, Zenon DEF FlushOK, new
    <2>10. TipOK' /\ node' = "loading"
      BY <1>5, Zenon DEF TipOK, Idle
    <2> QED  BY <1>1, <2>7, <2>9, <2>10, Zenon DEF IInv, Durable, UndoOK
  <1> QED  BY <1>3, <1>4, <1>5, Zenon DEF Startup

LEMMA IInvNext == IInv /\ [Next]_vars => IInv'
  <1> SUFFICES ASSUME IInv, [Next]_vars PROVE IInv'
    BY Zenon
  <1>1. ASSUME NEW b \in Block, AcceptBlock(b) PROVE IInv'
    BY <1>1, AcceptBlockStep, Zenon
  <1>2. ASSUME NEW b \in Block, ConnectTip(b) PROVE IInv'
    BY <1>2, ConnectTipStep, Zenon
  <1>3. CASE DisconnectTip
    BY <1>3, DisconnectTipStep, Zenon
  <1>4. CASE WriteBlockIndex
    BY <1>4, WriteBlockIndexStep, Zenon
  <1>5. ASSUME NEW files \in SUBSET FindFilesToPrune, BeginFlush(files) PROVE IInv'
    BY <1>5, BeginFlushStep, Zenon
  <1>6. ASSUME NEW outpoints \in SUBSET flush.todo, PartialBatch(outpoints) PROVE IInv'
    BY <1>6, PartialBatchStep, Zenon
  <1>7. CASE FinalBatch
    BY <1>7, FinalBatchStep
  <1>8. CASE Sync
    BY <1>8, SyncStep, SMTT(20)
  <1>9. CASE Crash
    BY <1>9, CrashStep
  <1>10. CASE Startup
    BY <1>10, StartupStep
  <1>11. CASE UNCHANGED vars
    BY <1>11, StutterStep, Zenon
  <1> QED
    BY <1>1, <1>2, <1>3, <1>4, <1>5, <1>6, <1>7, <1>8, <1>9, <1>10, <1>11, Zenon DEF Next

-----------------------------------------------------------------------------
(* Startup without pruning and without extension blocks *)

\* i holds no less than j.
More(i, j) ==
    j.data \subseteq i.data /\ \A b \in Block : j.undo[b] # NoUndo => i.undo[b] # NoUndo

ParentsToo(i) == Genesis \in i.data /\ \A b \in i.data \ {Genesis} : Parent[b] \in i.data

\* The block is indexed, and each block from it down to Genesis can be undone.
Ready(b, i) ==
    b # NoBlock => b \in i.data /\ \A a \in Ancestors[b] \ {Genesis} : i.undo[a] # NoUndo

NamesReady(d, i) ==
    Ready(d.best, i) /\ (d.heads # <<>> => Ready(d.heads[1], i) /\ Ready(d.heads[2], i))

\* What the coins databases and the tip name is ready: for the databases and a flush, on
\* what the disk holds.
Kept ==
    /\ ParentsToo(index) /\ ParentsToo(diskIndex) /\ More(index, diskIndex)
    /\ NamesReady(db, diskIndex) /\ NamesReady(synced, diskIndex)
    /\ Ready(tipBest, index) /\ Ready(flush.hash, diskIndex)
    /\ node # "failed"

LEMMA ReadyMore ==
    ASSUME NEW b \in BlockOrNone, NEW i, NEW j, Ready(b, i), More(j, i)
    PROVE  Ready(b, j)
  BY AncestorsEnds, Zenon DEF Ready, More, BlockOrNone

LEMMA NamesReadyMore ==
    ASSUME NEW d \in Database, NEW i, NEW j, NamesReady(d, i), More(j, i)
    PROVE  NamesReady(d, j)
  <1>1. d.best \in BlockOrNone
    BY Parts, Zenon
  <1>2. d.heads # <<>> => d.heads[1] \in BlockOrNone /\ d.heads[2] \in BlockOrNone
    BY Parts, Zenon DEF BlockOrNone
  <1> QED  BY <1>1, <1>2, ReadyMore, Zenon DEF NamesReady

\* The ancestors of an indexed block are indexed.
LEMMA AncestorsToo ==
    ASSUME NEW i, i.data \in SUBSET Block, ParentsToo(i)
    PROVE  \A b \in i.data : Ancestors[b] \subseteq i.data
  <1> DEFINE S == {b \in Block : b \in i.data => Ancestors[b] \subseteq i.data}
  <1>1. Genesis \in S
    BY AncestorsDef, AncestryAssumption, Zenon DEF ParentsToo
  <1>2. ASSUME NEW b \in Block \ {Genesis}, Parent[b] \in S PROVE b \in S
    BY <1>2, AncestorsDef, Zenon DEF ParentsToo
  <1>3. S = Block
    BY <1>1, <1>2, TreeAssumption, Zenon
  <1> QED  BY <1>3, Zenon

LEMMA KeptInit == Init => Kept
  <1> SUFFICES ASSUME Init PROVE Kept
    OBVIOUS
  <1>1. /\ index.data = {Genesis} /\ diskIndex = index
        /\ db.best = NoBlock /\ db.heads = <<>> /\ synced = db
        /\ tipBest = NoBlock /\ flush.hash = NoBlock /\ node = "running"
    BY Zenon DEF Init, NoFlush
  <1>2. ParentsToo(index) /\ More(index, diskIndex)
    BY <1>1, Zenon DEF ParentsToo, More
  <1>3. NamesReady(db, diskIndex) /\ Ready(tipBest, index) /\ Ready(flush.hash, diskIndex)
    BY <1>1, Zenon DEF NamesReady, Ready
  <1> QED  BY <1>1, <1>2, <1>3, Zenon DEF Kept

LEMMA KeptNext ==
    ASSUME Prunable = {}, MwebBlocks = {}, IInv, IInv', Kept, [Next]_vars
    PROVE  Kept'
  <1>1. /\ index \in Index /\ diskIndex \in Index /\ db \in Database /\ synced \in Database
        /\ index.data \in SUBSET Block /\ index.pruned = {}
        /\ index.undo \in [Block -> View \cup {NoUndo}]
        /\ tipBest \in BlockOrNone /\ flush.hash \in BlockOrNone
    BY Parts, Zenon DEF IInv, Typed
  <1>2. /\ ParentsToo(index) /\ ParentsToo(diskIndex) /\ More(index, diskIndex)
        /\ NamesReady(db, diskIndex) /\ NamesReady(synced, diskIndex)
        /\ Ready(tipBest, index) /\ Ready(flush.hash, diskIndex)
        /\ node # "failed"
    BY Zenon DEF Kept
  <1>3. ASSUME NEW b \in Block, AcceptBlock(b) PROVE Kept'
    <2>1. /\ index' = [index EXCEPT !.data = @ \cup {b}]
          /\ b # Genesis /\ Parent[b] \in index.data
          /\ UNCHANGED <<db, synced, diskIndex, node, tipBest, flush>>
      BY <1>1, <1>2, <1>3, Zenon DEF AcceptBlock, Indexed, ParentsToo
    <2>2. index'.data = index.data \cup {b} /\ index'.undo = index.undo
      BY <1>1, <2>1, Zenon DEF Index
    <2>3. ParentsToo(index') /\ More(index', index) /\ More(index', diskIndex)
      BY <1>2, <2>1, <2>2, Zenon DEF ParentsToo, More
    <2>4. Ready(tipBest, index')
      BY <1>1, <1>2, <2>3, ReadyMore, Zenon
    <2> QED  BY <1>2, <2>1, <2>3, <2>4, Zenon DEF Kept, ParentsToo, More, NamesReady, Ready
  <1>4. ASSUME NEW b \in Block, ConnectTip(b) PROVE Kept'
    <2> DEFINE s == ConnectCoins(Through(tip, db.coins), b)
    <2>1. /\ Idle /\ (IF b = Genesis THEN tipBest = NoBlock ELSE tipBest = Parent[b])
          /\ b \in index.data /\ tipBest' = b
          /\ index' = IF index.undo[b] = NoUndo /\ b # Genesis
                      THEN [index EXCEPT !.undo[b] = s.undo] ELSE index
          /\ UNCHANGED <<db, synced, diskIndex, node, flush>>
      BY <1>4, Zenon DEF ConnectTip
    <2>2. b # Genesis => s.undo \in View
      BY <2>1, ConnectOK, Zenon DEF UndoRight
    <2> HIDE DEF s
    <2>3. /\ index'.data = index.data
          /\ \A c \in Block : index.undo[c] # NoUndo => index'.undo[c] # NoUndo
          /\ b # Genesis => index'.undo[b] # NoUndo
      <3>1. CASE index.undo[b] = NoUndo /\ b # Genesis
        <4>1. /\ index'.data = index.data
              /\ \A c \in Block : index'.undo[c] = IF c = b THEN s.undo ELSE index.undo[c]
          BY <1>1, <2>1, <3>1, Zenon DEF Index
        <4> QED  BY <2>2, <3>1, <4>1, RecoveryAssumption, Zenon
      <3>2. CASE ~(index.undo[b] = NoUndo /\ b # Genesis)
        BY <2>1, <3>2, Zenon
      <3> QED  BY <3>1, <3>2, Zenon
    <2>4. ParentsToo(index') /\ More(index', diskIndex) /\ More(index', index)
      BY <1>2, <2>3, Zenon DEF ParentsToo, More
    <2>5. Ready(b, index')
      <3>1. CASE b = Genesis
        BY <2>1, <2>3, <3>1, AncestorsDef, Zenon DEF Ready
      <3>2. CASE b # Genesis
        <4>1. Parent[b] \in Block /\ Parent[b] # NoBlock /\ Ancestors[b] = {b} \cup Ancestors[Parent[b]]
          BY <3>2, AncestorsDef, AncestryAssumption, Zenon
        <4>2. Ready(Parent[b], index')
          BY <1>1, <1>2, <2>1, <2>4, <3>2, ReadyMore, Zenon
        <4> QED  BY <2>1, <2>3, <3>2, <4>1, <4>2, Zenon DEF Ready
      <3> QED  BY <3>1, <3>2, Zenon
    <2> QED  BY <1>2, <2>1, <2>4, <2>5, Zenon DEF Kept, ParentsToo, More, NamesReady, Ready
  <1>5. CASE DisconnectTip
    <2> DEFINE b == tipBest
    <2>1. /\ Idle /\ b \in Block \ {Genesis} /\ Parent[b] \in Block
          /\ UNCHANGED <<db, synced, diskIndex, index, flush>>
      BY <1>1, <1>5, AncestryAssumption, Zenon DEF DisconnectTip, BlockOrNone
    <2>2. b # NoBlock /\ b \in Ancestors[b] /\ Ancestors[b] = {b} \cup Ancestors[Parent[b]]
      BY <2>1, AncestorsEnds, AncestorsDef, AncestryAssumption, Zenon
    <2>3. b \in index.data /\ \A a \in Ancestors[b] \ {Genesis} : index.undo[a] # NoUndo
      BY <1>2, <2>2, Zenon DEF Ready
    <2>4. DisconnectCoins(EmptyCache, Through(tip, db.coins), b, index.undo[b]).fClean
      BY <2>1, <2>2, <2>3, DisconnectOK, Zenon
    <2>5. tipBest' = Parent[b] /\ node' = node
      BY <1>5, <2>1, <2>2, <2>3, <2>4, Zenon DEF DisconnectTip
    <2>6. Ready(Parent[b], index)
      BY <1>2, <2>1, <2>2, <2>3, Zenon DEF Ready, ParentsToo
    <2> QED  BY <1>2, <2>1, <2>5, <2>6, Zenon DEF Kept, ParentsToo, More, NamesReady, Ready
  <1>6. CASE WriteBlockIndex
    <2>1. diskIndex' = index /\ UNCHANGED <<db, synced, node, index, tipBest, flush>>
      BY <1>6, Zenon DEF WriteBlockIndex
    <2>2. NamesReady(db, index) /\ NamesReady(synced, index) /\ Ready(flush.hash, index)
      BY <1>1, <1>2, NamesReadyMore, ReadyMore, Zenon
    <2> QED  BY <1>2, <2>1, <2>2, ZenonT(30) DEF Kept, ParentsToo, More, NamesReady, Ready
  <1>7. ASSUME NEW files \in SUBSET FindFilesToPrune, BeginFlush(files) PROVE Kept'
    <2>1. files = {}
      BY Zenon DEF FindFilesToPrune
    <2>2. /\ index' = PruneOneBlockFile({}) /\ diskIndex' = index' /\ flush'.hash = tipBest
          /\ UNCHANGED <<db, synced, node, tipBest>>
      BY <1>7, <2>1, Zenon DEF BeginFlush
    <2>3. index'.data = index.data /\ index'.undo = index.undo
      BY <1>1, <2>2, Zenon DEF PruneOneBlockFile
    <2>4. ParentsToo(index') /\ More(index', index) /\ More(index', diskIndex) /\ More(index', index')
      BY <1>2, <2>3, Zenon DEF ParentsToo, More
    <2>5. NamesReady(db, index') /\ NamesReady(synced, index') /\ Ready(tipBest, index')
      BY <1>1, <1>2, <2>4, NamesReadyMore, ReadyMore, Zenon
    <2> QED  BY <1>2, <2>2, <2>4, <2>5, Zenon DEF Kept, ParentsToo, More, NamesReady, Ready
  <1>8. ASSUME NEW outpoints \in SUBSET flush.todo, PartialBatch(outpoints) PROVE Kept'
    <2> DEFINE old == OldTip
    <2>1. /\ db' = [db EXCEPT !.coins = Written(outpoints), !.best = NoBlock,
                              !.heads = <<flush.hash, old>>]
          /\ flush' = [flush EXCEPT !.todo = @ \ outpoints]
          /\ UNCHANGED <<synced, diskIndex, node, index, tipBest>>
      BY <1>8, Zenon DEF PartialBatch
    <2>2. Ready(old, diskIndex)
      BY <1>2, Zenon DEF NamesReady, OldTip
    <2> HIDE DEF old
    <2>3. db'.best = NoBlock /\ db'.heads = <<flush.hash, old>> /\ flush'.hash = flush.hash
      BY <1>1, <2>1, Zenon DEF Database, IInv, Typed
    <2>4. NamesReady(db', diskIndex)
      <3>1. db'.heads[1] = flush.hash /\ db'.heads[2] = old
        BY <2>3
      <3>2. Ready(NoBlock, diskIndex)
        BY Zenon DEF Ready
      <3> QED  BY <1>2, <2>2, <2>3, <3>1, <3>2, Zenon DEF NamesReady
    <2> QED  BY <1>2, <2>1, <2>3, <2>4, Zenon DEF Kept, ParentsToo, More, NamesReady, Ready
  <1>9. CASE FinalBatch
    <2>1. /\ db'.best = flush.hash /\ db'.heads = <<>> /\ flush'.hash = NoBlock
          /\ node' = "running" /\ UNCHANGED <<synced, diskIndex, index, tipBest>>
      BY <1>9, Zenon DEF FinalBatch, NoFlush
    <2>2. NamesReady(db', diskIndex) /\ Ready(flush'.hash, diskIndex)
      BY <1>2, <2>1, Zenon DEF NamesReady, Ready
    <2> QED  BY <1>2, <2>1, <2>2, Zenon DEF Kept, ParentsToo, More, NamesReady, Ready
  <1>10. CASE Sync
    BY <1>2, <1>10, Zenon DEF Sync, volatile, Kept, ParentsToo, More, NamesReady, Ready
  <1>11. CASE Crash
    <2>1. /\ db' = db \/ db' = synced
          /\ node' = "down" /\ index' = diskIndex /\ tipBest' = NoBlock /\ flush'.hash = NoBlock
          /\ UNCHANGED <<synced, diskIndex>>
      BY <1>11, Zenon DEF Crash, NoFlush
    <2>2. NamesReady(db', diskIndex) /\ Ready(tipBest', index') /\ Ready(flush'.hash, diskIndex)
      BY <1>2, <2>1, Zenon DEF NamesReady, Ready
    <2> QED  BY <1>2, <2>1, <2>2, Zenon DEF Kept, ParentsToo, More, NamesReady, Ready
  <1>12. CASE Startup
    <2>1. UNCHANGED <<db, synced, diskIndex, index>>
      BY <1>12, Zenon DEF Startup
    <2>2. NamesReady(db, index)
      BY <1>1, <1>2, NamesReadyMore, Zenon
    <2>3. CASE db.heads = <<>>
      <3>1. db.best = NoBlock \/ db.best \in Indexed
        BY <2>2, Zenon DEF NamesReady, Ready, Indexed
      <3>2. node' = "running" /\ tipBest' = db.best /\ flush' = flush
        BY <1>12, <2>3, <3>1, Zenon DEF Startup
      <3> QED  BY <1>2, <2>1, <2>2, <3>2, Zenon DEF Kept, ParentsToo, More, NamesReady, Ready
    <2>4. CASE db.heads # <<>>
      <3> DEFINE new == db.heads[1]
                 old == db.heads[2]
      <3>1. new \in Block /\ old \in BlockOrNone /\ new # NoBlock
        BY <1>1, <2>4, Parts, Zenon
      <3>2. Ready(new, index) /\ Ready(old, index) /\ Ready(new, diskIndex)
        BY <1>2, <2>2, <2>4, Zenon DEF NamesReady
      <3>3. \A b \in index.data : Ancestors[b] \subseteq index.data
        <4> DEFINE i == index
        <4>1. i.data \in SUBSET Block /\ ParentsToo(i)
          BY <1>1, <1>2, Zenon
        <4> HIDE DEF i
        <4>2. \A b \in i.data : Ancestors[b] \subseteq i.data
          BY <4>1, AncestorsToo, Zenon
        <4> QED  BY <4>2, Zenon DEF i
      <3> HIDE DEF new, old
      <3>4. new \in index.data /\ Ancestors[new] \subseteq index.data
        BY <3>1, <3>2, <3>3, Zenon DEF Ready
      <3>5. ASSUME old # NoBlock
            PROVE  /\ old \in index.data /\ Ancestors[old] \subseteq index.data
                   /\ \A b \in Ancestors[old] \ Ancestors[new] : index.undo[b] # NoUndo
        BY <3>1, <3>2, <3>3, <3>5, AncestorsEnds, Zenon DEF Ready
      <3>6. ~ReplayFails(new, old)
        BY <3>4, <3>5, Zenon DEF ReplayFails, Indexed
      <3>7. node' = "loading" /\ tipBest' = new /\ flush'.hash = new
        <4>1. /\ node' = "loading" /\ tipBest' = new
              /\ flush' = [todo |-> DirtyOutPoints(tip'), hash |-> new]
          BY <1>12, <2>4, <3>6, Zenon DEF Startup, new, old
        <4> QED  BY <4>1, Zenon
      <3> QED  BY <1>2, <2>1, <3>2, <3>7, Zenon DEF Kept, ParentsToo, More, NamesReady, Ready
    <2> QED  BY <2>3, <2>4, Zenon
  <1>13. CASE UNCHANGED vars
    BY <1>2, <1>13, Zenon DEF vars, Kept, ParentsToo, More, NamesReady, Ready
  <1> QED
    BY <1>3, <1>4, <1>5, <1>6, <1>7, <1>8, <1>9, <1>10, <1>11, <1>12, <1>13, Zenon DEF Next

-----------------------------------------------------------------------------
(* The theorems *)

\* The invariant holds in every reachable state.
THEOREM RecoveryInvariant == Spec => []IInv
  <1>1. Init => IInv
    BY IInvInit, Zenon
  <1>2. IInv /\ [Next]_vars => IInv'
    BY IInvNext, Zenon
  <1> QED  BY <1>1, <1>2, PTL DEF Spec

\* While the node runs and no flush is under way, CoinsTip() answers exactly the unspent
\* coins of its best block: through connects, disconnects, flushes in batches, crashes and
\* power failures between any two of them, and replays that are interrupted in turn.
THEOREM CoinsSurvive == Spec => []CoinsMatchBestBlock
  <1>1. IInv => CoinsMatchBestBlock
    BY IInvImplies, Zenon
  <1> QED  BY <1>1, RecoveryInvariant, PTL

\* A coins database with a DB_BEST_BLOCK is complete for that block, on disk and as a power
\* failure would leave it: CCoinsViewDB::BatchWrite erases the record before the first
\* coin changes and writes it with the last one.
THEOREM BestBlockIsComplete == Spec => []NamedStateIsComplete
  <1>1. IInv => NamedStateIsComplete
    BY IInvImplies, Zenon
  <1> QED  BY <1>1, RecoveryInvariant, PTL

\* CCoinsViewDB::BatchWrite's assertion holds: a flush that meets a half-written database
\* goes to the block that the interrupted one went to.
THEOREM FlushResumes == Spec => []FlushResumesTransition
  <1>1. IInv => FlushResumesTransition
    BY IInvImplies, Zenon
  <1> QED  BY <1>1, RecoveryInvariant, PTL

\* DisconnectBlock of the tip, when its undo data is there, is never DISCONNECT_UNCLEAN.
DisconnectsCleanly ==
    Idle /\ tipBest \notin {NoBlock, Genesis} /\ index.undo[tipBest] # NoUndo =>
        DisconnectCoins(EmptyCache, Through(tip, db.coins), tipBest, index.undo[tipBest]).fClean

\* DisconnectTip's "failed" for an unclean block is out of reach: every output of the tip
\* is there, as the block made it, and no input is.
THEOREM CleanDisconnects == Spec => []DisconnectsCleanly
  <1>1. IInv => DisconnectsCleanly
    <2> SUFFICES ASSUME IInv, Idle, tipBest \notin {NoBlock, Genesis}, index.undo[tipBest] # NoUndo
                 PROVE  DisconnectCoins(EmptyCache, Through(tip, db.coins), tipBest,
                                        index.undo[tipBest]).fClean
      BY Zenon DEF DisconnectsCleanly
    <2> DEFINE b == tipBest
    <2>1. b \in Block \ {Genesis} /\ tipBest = b /\ index.undo[b] # NoUndo
      BY Zenon DEF IInv, Typed, BlockOrNone
    <2> HIDE DEF b
    <2>2. DisconnectCoins(EmptyCache, Through(tip, db.coins), b, index.undo[b]).fClean
      BY <2>1, DisconnectOK, Zenon
    <2> QED  BY <2>2, Zenon DEF b
  <1> QED  BY <1>1, RecoveryInvariant, PTL

\* Where no file is pruned and no block has an extension block, startup and DisconnectTip
\* never fail: FlushStateToDisk writes block data, undo data and the block index before
\* the first coin, so that whatever a database names can be undone and redone.
THEOREM StartupIsSafe ==
    ASSUME Prunable = {}, MwebBlocks = {}
    PROVE  Spec => []StartupSucceeds
  <1>1. Init => IInv /\ Kept
    BY IInvInit, KeptInit, Zenon
  <1>2. IInv /\ Kept /\ [Next]_vars => IInv' /\ Kept'
    BY IInvNext, KeptNext, Zenon
  <1>3. Kept => StartupSucceeds
    BY Zenon DEF Kept, StartupSucceeds
  <1> QED  BY <1>1, <1>2, <1>3, PTL DEF Spec
=============================================================================
