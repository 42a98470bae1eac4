------------------------------ MODULE UtxoStore ------------------------------
(***************************************************************************)
(* What the stack of coin views promises its users: one map from outpoints *)
(* to coins that is changed in transactions.  A transaction (one block     *)
(* being connected or disconnected) works on "pending" and is committed or *)
(* dropped as a whole; a committed state is made persistent as a whole.    *)
(* No cache, no flag and no read appears here.                             *)
(***************************************************************************)

CONSTANTS OutPoint, Coin, NoCoin, Hash

VARIABLES
    disk,      \* the coins the database answers
    diskBest,  \* the block they belong to
    utxo,      \* the coins the node answers (CoinsTip)
    best,      \* the block they belong to
    pending,   \* the coins inside the open transaction
    open       \* a transaction is open

vars == <<disk, diskBest, utxo, best, pending, open>>

Map == [OutPoint -> Coin \cup {NoCoin}]

Init ==
    /\ disk \in Map /\ utxo = disk /\ pending = disk
    /\ diskBest \in Hash /\ best = diskBest
    /\ open = FALSE

Begin ==
    /\ ~open
    /\ open' = TRUE
    /\ UNCHANGED <<disk, diskBest, utxo, best, pending>>

Write(o, c) ==
    /\ open
    /\ pending' = [pending EXCEPT ![o] = c]
    /\ UNCHANGED <<disk, diskBest, utxo, best, open>>

Commit(h) ==
    /\ open
    /\ utxo' = pending
    /\ best' = h
    /\ open' = FALSE
    /\ UNCHANGED <<disk, diskBest, pending>>

Abort ==
    /\ open
    /\ pending' = utxo
    /\ open' = FALSE
    /\ UNCHANGED <<disk, diskBest, utxo, best>>

Persist ==
    /\ ~open
    /\ disk' = utxo
    /\ diskBest' = best
    /\ UNCHANGED <<utxo, best, pending, open>>

Next ==
    \/ Begin
    \/ \E o \in OutPoint, c \in Coin \cup {NoCoin} : Write(o, c)
    \/ \E h \in Hash : Commit(h)
    \/ Abort
    \/ Persist

Spec == Init /\ [][Next]_vars
=============================================================================
