----------------------------- MODULE BlockCoins -----------------------------
(***************************************************************************)
(* What a block does to the coins: UpdateCoins, DisconnectBlock and        *)
(* RollforwardBlock (src/validation.cpp) on a CCoinsViewCache, and the     *)
(* reference definition of the unspent coins after a block.                *)
(*                                                                         *)
(* A transaction is [coinbase, ins, outs].  The coin of an output is told  *)
(* apart by the height it was confirmed at (Coin == the heights), so one   *)
(* transaction mined in two branches gives two different coins.            *)
(***************************************************************************)
EXTENDS CoinsView, Ancestry, Sequences

CONSTANT Vtx    \* block.vtx: [Block -> Seq of transactions]; <<>> for Genesis

\* Outputs that cannot be spent are left out, a coinbase has no inputs here, and no block
\* spends an outpoint twice: it is made by one transaction, once.
ASSUME VtxAssumption ==
    /\ Vtx[Genesis] = <<>>
    /\ \A b \in Block :
          Vtx[b] \in Seq([coinbase : BOOLEAN, ins : SUBSET OutPoint, outs : SUBSET OutPoint])
    /\ \A b \in Block \ {Genesis} : Height[b] \in Coin
    /\ Unspendable = {}
    /\ \A b \in Block : \A i, j \in 1..Len(Vtx[b]) :
          /\ Vtx[b][i].coinbase => Vtx[b][i].ins = {}
          /\ i # j => Vtx[b][i].ins \cap Vtx[b][j].ins = {}

-----------------------------------------------------------------------------
(* The reference: a map and no caches *)

TxOnMap(map, tx, height) ==
    [o \in OutPoint |-> IF o \in tx.outs THEN height
                        ELSE IF o \in tx.ins THEN NoCoin ELSE map[o]]

\* The map after each transaction of b, from map before the first.
MapAfter(map, b) ==
    LET after[k \in 0..Len(Vtx[b])] ==
            IF k = 0 THEN map ELSE TxOnMap(after[k - 1], Vtx[b][k], Height[b])
    IN after

\* The unspent coins after block b.
UtxoAt[b \in Block] ==
    IF b = Genesis THEN [o \in OutPoint |-> NoCoin]
    ELSE MapAfter(UtxoAt[Parent[b]], b)[Len(Vtx[b])]

-----------------------------------------------------------------------------
(* One transaction on a cache.  Inputs and outputs of a transaction are      *)
(* distinct outpoints, so a loop over them is a pointwise definition.        *)

SpendAll(cache, below, outpoints) ==
    [o \in OutPoint |-> IF o \in outpoints THEN SpendCoin(cache, below, o)[o] ELSE cache[o]]

\* AddCoins; check is its check_for_overwrite.
AddCoins(cache, below, tx, height, check) ==
    LET overwrite(o) == IF check THEN HaveCoin(cache, below, o) ELSE tx.coinbase
        fetched(o)   == IF check THEN FetchCoin(cache, below, o) ELSE cache
    IN [o \in OutPoint |->
            IF o \in tx.outs THEN AddCoin(fetched(o), o, height, overwrite(o))[o]
            ELSE cache[o]]

\* UpdateCoins: s is the cache and the undo data collected so far, the coin
\* each spent outpoint had.
UpdateCoins(s, below, tx, height) ==
    LET coins == Through(s.cache, below) IN
    [cache |-> AddCoins(SpendAll(s.cache, below, tx.ins), below, tx, height, FALSE),
     undo  |-> [o \in OutPoint |-> IF o \in tx.ins THEN coins[o] ELSE s.undo[o]]]

\* The loop of ConnectBlock on a fresh view over below.
ConnectCoins(below, b) ==
    LET done[k \in 0..Len(Vtx[b])] ==
            IF k = 0 THEN [cache |-> EmptyCache, undo |-> [o \in OutPoint |-> NoCoin]]
            ELSE UpdateCoins(done[k - 1], below, Vtx[b][k], Height[b])
    IN done[Len(Vtx[b])]

\* One transaction of DisconnectBlock: spend the outputs, restore the inputs.
\* fClean is lost when an output is missing or differs from the block's, or
\* when ApplyTxInUndo overwrites a coin.
UndoTx(s, below, tx, undo, height) ==
    LET coins   == Through(s.cache, below)
        spent   == SpendAll(s.cache, below, tx.outs)
        have(o) == HaveCoin(spent, below, o)
    IN [cache  |-> [o \in OutPoint |->
                       IF o \in tx.ins
                       THEN AddCoin(FetchCoin(spent, below, o), o, undo[o], have(o))[o]
                       ELSE spent[o]],
        fClean |-> /\ s.fClean
                   /\ \A o \in tx.outs : coins[o] = height
                   /\ \A o \in tx.ins : ~have(o)]

\* DisconnectBlock on a cache over below, with the block's undo data: the transactions
\* after the first k are undone, the last one first.
DisconnectCoins(cache, below, b, undo) ==
    LET undone[k \in 0..Len(Vtx[b])] ==
            IF k = Len(Vtx[b]) THEN [cache |-> cache, fClean |-> TRUE]
            ELSE UndoTx(undone[k + 1], below, Vtx[b][k + 1], undo, Height[b])
    IN undone[0]

\* RollforwardBlock: every addition may be an overwrite.
RollforwardTx(cache, below, tx, height) ==
    AddCoins(IF tx.coinbase THEN cache ELSE SpendAll(cache, below, tx.ins),
             below, tx, height, TRUE)

RollforwardBlock(cache, below, b) ==
    LET done[k \in 0..Len(Vtx[b])] ==
            IF k = 0 THEN cache
            ELSE RollforwardTx(done[k - 1], below, Vtx[b][k], Height[b])
    IN done[Len(Vtx[b])]
=============================================================================
