------------------------------ MODULE Mempool ------------------------------
(***************************************************************************)
(* CTxMemPool: the graph of unconfirmed transactions with the totals each  *)
(* entry keeps of its ancestors and descendants, as AcceptToMemoryPool,    *)
(* PrioritiseTransaction, the eviction of LimitMempoolSize, and the blocks *)
(* that are connected and disconnected change it.                          *)
(*                                                                         *)
(* cs_main and CTxMemPool::cs are held throughout each action and from the *)
(* first DisconnectTip of a reorganisation to UpdateMempoolForReorg.       *)
(***************************************************************************)
EXTENDS Integers, Sequences, FiniteSets, SequencesExt, FiniteSetsExt, Functions, TLC

CONSTANTS
    Tx,            \* transactions, as a sequence in which none precedes its parents
    Coin,          \* coins that are confirmed from the start
    Inputs,        \* Inputs[t]: the outputs <<owner, n>> it spends
    MwebOutput,    \* the outputs among them that are on the extension block
    HasKernel,     \* transactions with an extension block part, tied to the other by a pegin
    MwebOnly,      \* those of them that have no other part
    Fee, Size,
    MinHeight,     \* MinHeight[t]: the first height at which t is final and mature
    Replaceable,   \* transactions that signal BIP 125
    LimitAncestors, LimitDescendants, LimitUsage, LimitDisconnected,
    IncrementalFee,   \* incrementalRelayFee and minRelayTxFee, per 1000 units of size
    UnseenKernels,    \* blocks may hold extension block transactions not in the pool
    ChainedKernels,   \* ... and such a transaction together with a child of it
    MaxHeight, MaxBlockTxs, MaxReorgs, MaxPrioritised, Delta   \* bounds, and a fee delta

TxSet    == Range(Tx)
Outpoint == UNION Range(Inputs)

ASSUME MempoolAssumption ==
    /\ \A i, j \in DOMAIN Tx : \A o \in Inputs[Tx[i]] : o[1] = Tx[j] => j < i
    /\ \A o \in Outpoint : o[1] \in TxSet \cup Coin
    /\ MwebOnly \subseteq HasKernel /\ HasKernel \subseteq TxSet

VARIABLES
    pool,             \* the CTxMemPool
    chain,            \* the transactions of each block of the active chain
    reorg,            \* "disconnect", "connect" until UpdateMempoolForReorg, or "none"
    disconnectpool,   \* queuedTx, in insertion order
    reorgs, prioritised

vars == <<pool, chain, reorg, disconnectpool, reorgs, prioritised>>

Init ==
    /\ pool = [mapTx |-> <<>>, mapNextTx |-> <<>>, mapDeltas |-> [t \in TxSet |-> 0],
               cachedInnerUsage |-> 0, recentTxsByKernel |-> {},
               rollingMinimumFeeRate |-> 0, blockSinceLastRollingFeeBump |-> FALSE]
    /\ chain = <<>> /\ reorg = "none" /\ disconnectpool = <<>>
    /\ reorgs = 0 /\ prioritised = 0

-----------------------------------------------------------------------------
(* The entries *)

In(P)          == DOMAIN P.mapTx
Spenders(P, O) == {P.mapNextTx[o] : o \in O \cap DOMAIN P.mapNextTx}
OutputsOf(t)   == {o \in Outpoint : o[1] = t}
Owners(t)      == {o[1] : o \in Inputs[t]}

\* What transactions add to the totals of another; sigop cost and extension block
\* weight are kept in the same way as the size.
Total(P, S) ==
    [count |-> Cardinality(S), size |-> MapThenSumSet(LAMBDA t : Size[t], S),
     fees |-> MapThenSumSet(LAMBDA t : P.mapTx[t].fee, S)]

Plus(a, b)  == [f \in DOMAIN a |-> a[f] + b[f]]
Minus(a, b) == [f \in DOMAIN a |-> a[f] - b[f]]

RECURSIVE Reach(_, _, _)
Reach(P, link, S) ==
    LET T == S \cup UNION {P.mapTx[t][link] : t \in S}
    IN  IF T = S THEN S ELSE Reach(P, link, T)

\* CalculateMemPoolAncestors without limits, for a set of parents.
AncestorsBy(P, parents) == Reach(P, "parents", parents)
CalculateDescendants(P, S) == Reach(P, "children", S)

\* The entry has no children as yet, even where some are in the pool already.
addUnchecked(P, t, anc) ==
    LET fee     == Fee[t] + P.mapDeltas[t]
        parents == Owners(t) \cap In(P)
        own     == [count |-> 1, size |-> Size[t], fees |-> fee]
        linked  == [x \in In(P) |->
                       [P.mapTx[x] EXCEPT !.children = IF x \in parents THEN @ \cup {t} ELSE @,
                                          !.desc = IF x \in anc THEN Plus(@, own) ELSE @]]
    IN  [P EXCEPT !.mapTx = linked @@ (t :> [fee |-> fee, parents |-> parents, children |-> {},
                                              anc |-> Plus(own, Total(P, anc)), desc |-> own]),
                  !.mapNextTx = @ @@ [o \in Inputs[t] |-> t],
                  !.cachedInnerUsage = @ + 1 + 2 * Cardinality(parents)]

\* Faulty: the ancestors are searched for among the inputs, not followed by the links.
UpdateForRemoveFromMempool_Search(P, stage, updateDescendants) ==
    LET above(r) == AncestorsBy(P, Owners(r) \cap In(P))
        below(r) == CalculateDescendants(P, {r}) \ {r}
        kept(x)  == P.mapTx[x].children \ stage
    IN  [x \in In(P) |-> [P.mapTx[x] EXCEPT
            !.desc     = Minus(@, Total(P, {r \in stage : x \in above(r)})),
            !.anc      = IF updateDescendants
                         THEN Minus(@, Total(P, {r \in stage : x \in below(r)})) ELSE @,
            !.children = kept(x),
            !.parents  = @ \ {r \in stage : x \in kept(r)}]]

\* The totals of ancestors, and of descendants that stay, lose the transactions of
\* stage; the links of the others to them are severed.
UpdateForRemoveFromMempool(P, stage, updateDescendants) ==
    LET above(r) == AncestorsBy(P, P.mapTx[r].parents)
        below(r) == CalculateDescendants(P, {r}) \ {r}
        kept(x)  == P.mapTx[x].children \ {r \in stage : x \in P.mapTx[r].parents}
    IN  [x \in In(P) |-> [P.mapTx[x] EXCEPT
            !.desc     = Minus(@, Total(P, {r \in stage : x \in above(r)})),
            !.anc      = IF updateDescendants
                         THEN Minus(@, Total(P, {r \in stage : x \in below(r)})) ELSE @,
            !.children = kept(x),
            !.parents  = @ \ {r \in stage : x \in kept(r)}]]

Links(m, S) ==
    MapThenSumSet(LAMBDA x : Cardinality(m[x].parents) + Cardinality(m[x].children), S)

\* RemoveStaged and removeUnchecked.
RemoveStaged(P, stage, updateDescendants, reason) ==
    LET m == UpdateForRemoveFromMempool(P, stage, updateDescendants) IN
    [P EXCEPT !.mapTx = Restrict(m, In(P) \ stage),
              !.mapNextTx = Restrict(@, DOMAIN @ \ UNION {Inputs[r] : r \in stage}),
              !.cachedInnerUsage = @ - (Links(P.mapTx, In(P)) - Links(m, In(P)))
                                     - Links(m, stage) - Cardinality(stage),
              !.recentTxsByKernel = IF reason \in {"BLOCK", "REORG"}
                                    THEN @ \cup (stage \cap HasKernel) ELSE @]

\* Faulty: a transaction that did not return leaves its children behind.
removeRecursive_Self(P, t, reason) ==
    RemoveStaged(P, CalculateDescendants(P, {t} \cap In(P)), FALSE, reason)

\* A block keeps the extension block part of its transactions apart: a transaction
\* taken from one is whole only where recentTxsByKernel still has it.
Whole(P, t) == t \in HasKernel => t \in P.recentTxsByKernel

removeRecursive(P, t, reason) ==
    LET outputs == OutputsOf(t) \ (IF Whole(P, t) THEN {} ELSE MwebOutput)
        first   == IF t \in In(P) THEN {t} ELSE Spenders(P, outputs)
    IN  RemoveStaged(P, CalculateDescendants(P, first), FALSE, reason)

-----------------------------------------------------------------------------
(* Limits *)

FeePerK(fee, size) == (fee * 1000) \div size

\* Fee and size that an entry is sorted by: its own or those with its descendants,
\* whichever is the better rate.
Score(P, t) ==
    LET e == P.mapTx[t]
    IN  IF e.desc.fees * Size[t] > e.fee * e.desc.size
        THEN <<e.desc.fees, e.desc.size>> ELSE <<e.fee, Size[t]>>

Worse(P, t, u) == Score(P, t)[1] * Score(P, u)[2] < Score(P, t)[2] * Score(P, u)[1]

trackPackageRemoved(P, rate) ==
    IF rate > P.rollingMinimumFeeRate
    THEN [P EXCEPT !.rollingMinimumFeeRate = rate, !.blockSinceLastRollingFeeBump = FALSE]
    ELSE P

\* DynamicMemoryUsage in units of an entry.
Usage(P) == Cardinality(In(P))

RECURSIVE TrimToSize(_)
TrimToSize(P) ==
    IF Usage(P) <= LimitUsage THEN P
    ELSE LET t == CHOOSE x \in In(P) : \A y \in In(P) : ~Worse(P, y, x)
             d == P.mapTx[t].desc
         IN  TrimToSize(RemoveStaged(
                 trackPackageRemoved(P, FeePerK(d.fees, d.size) + IncrementalFee),
                 CalculateDescendants(P, {t}), FALSE, "SIZELIMIT"))

\* Faulty: only what is expired is removed.
LimitMempoolSize_ExpireOnly(P, old) ==
    RemoveStaged(P, CalculateDescendants(P, old \cap In(P)), FALSE, "EXPIRY")

\* old: the transactions that entered longer ago than -mempoolexpiry.
LimitMempoolSize(P, old) ==
    TrimToSize(RemoveStaged(P, CalculateDescendants(P, old \cap In(P)), FALSE, "EXPIRY"))

-----------------------------------------------------------------------------
(* AcceptToMemoryPool *)

Confirmed(c) == UNION Range(c)
Utxo(c) ==
    ({<<k, 0>> : k \in Coin} \cup UNION {OutputsOf(t) : t \in Confirmed(c)})
        \ UNION {Inputs[t] : t \in Confirmed(c)}

Final(t, c) == Len(c) + 1 >= MinHeight[t]

\* CCoinsViewMemPool: an extension block output is not there for a second spender.
HaveCoin(P, c, o) ==
    /\ o[1] \in In(P) \/ o \in Utxo(c)
    /\ o \in MwebOutput => o \notin DOMAIN P.mapNextTx

GetFee(rate, size) ==
    LET fee == (rate * size) \div 1000 IN IF fee = 0 /\ rate > 0 THEN 1 ELSE fee

GetMinFee(P) ==
    IF ~P.blockSinceLastRollingFeeBump \/ P.rollingMinimumFeeRate = 0
    THEN P.rollingMinimumFeeRate
    ELSE Max({P.rollingMinimumFeeRate, IncrementalFee})

\* The ancestor and descendant counts; the limits on sizes have the same form.
WithinLimits(P, anc, ancestors, descendants) ==
    /\ Cardinality(anc) + 1 <= ancestors
    /\ \A a \in anc : P.mapTx[a].desc.count + 1 <= descendants

\* The rules for a transaction that replaces those in conflicts.
MayReplace(P, t, fee, conflicts) ==
    LET paid == Total(P, CalculateDescendants(P, conflicts)).fees IN
    /\ conflicts \subseteq Replaceable
    /\ \A u \in conflicts : FeePerK(fee, Size[t]) > FeePerK(P.mapTx[u].fee, Size[u])
    /\ \A o \in Inputs[t] \ MwebOutput :
           o[1] \in In(P) => o[1] \in UNION {Owners(u) : u \in conflicts}
    /\ fee - paid >= GetFee(IncrementalFee, Size[t])

PreChecks(P, c, t, bypass_limits) ==
    LET fee       == Fee[t] + P.mapDeltas[t]
        conflicts == Spenders(P, Inputs[t])
        anc       == AncestorsBy(P, Owners(t) \cap In(P))
        limit     == LimitDescendants + (IF Cardinality(conflicts) = 1 THEN 1 ELSE 0)
    IN  /\ Final(t, c) /\ t \notin In(P)
        /\ \A o \in Inputs[t] : HaveCoin(P, c, o)
        /\ ~bypass_limits => /\ fee >= GetFee(GetMinFee(P), Size[t])
                             /\ fee >= GetFee(IncrementalFee, Size[t])
        /\ \/ WithinLimits(P, anc, LimitAncestors, limit)
           \/ WithinLimits(P, anc, 2, limit + 1)
        /\ anc \cap conflicts = {}
        /\ conflicts # {} => MayReplace(P, t, fee, conflicts)

\* Finalize, up to the limits.
Finalize(P, t) ==
    addUnchecked(RemoveStaged(P, CalculateDescendants(P, Spenders(P, Inputs[t])), FALSE, "REPLACED"),
                 t, AncestorsBy(P, Owners(t) \cap In(P)))

AtMostOne(S) == {{}} \cup {{t} : t \in S}

AcceptToMemoryPool(t) ==
    /\ reorg = "none" /\ PreChecks(pool, chain, t, FALSE)
    /\ LET P == Finalize(pool, t) IN
       \E old \in AtMostOne(In(P)) : pool' = LimitMempoolSize(P, old)
    /\ UNCHANGED <<chain, reorg, disconnectpool, reorgs, prioritised>>

Prioritised(P, t) ==
    LET up   == AncestorsBy(P, P.mapTx[t].parents)
        down == CalculateDescendants(P, {t})
    IN  [x \in In(P) |-> [P.mapTx[x] EXCEPT
            !.fee       = IF x = t THEN @ + Delta ELSE @,
            !.desc.fees = IF x = t \/ x \in up THEN @ + Delta ELSE @,
            !.anc.fees  = IF x \in down THEN @ + Delta ELSE @]]

PrioritiseTransaction(t) ==
    /\ reorg = "none" /\ prioritised < MaxPrioritised
    /\ prioritised' = prioritised + 1
    /\ pool' = [pool EXCEPT !.mapDeltas[t] = @ + Delta,
                            !.mapTx = IF t \in In(pool) THEN Prioritised(pool, t) ELSE @]
    /\ UNCHANGED <<chain, reorg, disconnectpool, reorgs>>

\* GetMinFee, asked so long after a block that the fee has decayed.
MinFeeDecays ==
    /\ reorg = "none" /\ pool.blockSinceLastRollingFeeBump /\ pool.rollingMinimumFeeRate > 0
    /\ pool' = [pool EXCEPT !.rollingMinimumFeeRate = 0]
    /\ UNCHANGED <<chain, reorg, disconnectpool, reorgs, prioritised>>

-----------------------------------------------------------------------------
(* Blocks *)

\* S can be the transactions of the next block.
ValidBlock(S) ==
    /\ S \cap Confirmed(chain) = {} /\ Cardinality(S) <= MaxBlockTxs
    /\ \A t \in S : /\ Final(t, chain)
                    /\ Inputs[t] \subseteq Utxo(chain) \cup UNION {OutputsOf(u) : u \in S}
                    /\ \A u \in S \ {t} : Inputs[t] \cap Inputs[u] = {}

ClearPrioritisation(P, t) == [P EXCEPT !.mapDeltas[t] = 0]

removeConflicts(P, t, inputs) ==
    FoldLeft(LAMBDA Q, u : IF u \in In(Q)
                           THEN removeRecursive(ClearPrioritisation(Q, u), u, "CONFLICT") ELSE Q,
             P, SetToSeq(Spenders(P, inputs) \ {t}))

\* The block's vtx, and the transactions here with a kernel of its extension block.
Vtx(S)         == SelectSeq(Tx, LAMBDA t : t \in S \ MwebOnly)
ByKernel(P, S) == SelectSeq(Tx, LAMBDA t : t \in S \cap HasKernel \cap In(P))

removeForBlock(P, S) ==
    LET remove(Q, t, inputs) ==
            ClearPrioritisation(
                removeConflicts(RemoveStaged(Q, {t} \cap In(Q), TRUE, "BLOCK"), t, inputs), t)
        Q == FoldLeft(LAMBDA q, t : remove(q, t, Inputs[t] \ MwebOutput), P, Vtx(S))
        R == FoldLeft(LAMBDA q, t : remove(q, t, Inputs[t]), Q, ByKernel(P, S))
    IN  [R EXCEPT !.blockSinceLastRollingFeeBump = TRUE]

ConnectTip(S) ==
    /\ Len(chain) < MaxHeight /\ ValidBlock(S)
    /\ UnseenKernels \/ S \cap MwebOnly \subseteq In(pool)
    /\ ChainedKernels \/ \A t \in S : Owners(t) \cap S \cap MwebOnly = {}
    /\ pool' = removeForBlock(pool, S)
    /\ chain' = Append(chain, S)
    /\ disconnectpool' = SelectSeq(disconnectpool, LAMBDA t : ~Contains(Vtx(S) \o ByKernel(pool, S), t))
    /\ reorg' = IF reorg = "none" THEN "none" ELSE "connect"
    /\ UNCHANGED <<reorgs, prioritised>>

RECURSIVE LimitQueue(_, _)
LimitQueue(P, queue) ==
    IF Len(queue) <= LimitDisconnected THEN [pool |-> P, queue |-> queue]
    ELSE LimitQueue(removeRecursive(P, Head(queue), "REORG"), Tail(queue))

\* order: that of the kernels' hashes, which is arbitrary.
DisconnectTip(order) ==
    LET S       == Last(chain)
        kernels == SelectSeq(order, LAMBDA t : t \in S \cap pool.recentTxsByKernel)
        block   == kernels \o Reverse(Vtx(S))
        queue   == FoldLeft(LAMBDA q, t : IF Contains(q, t) THEN q ELSE Append(q, t),
                            disconnectpool, block)
        limited == LimitQueue(pool, queue)
    IN  /\ chain # <<>> /\ reorg # "connect" /\ (reorg = "none" => reorgs < MaxReorgs)
        /\ pool' = limited.pool /\ disconnectpool' = limited.queue
        /\ chain' = Front(chain)
        /\ reorg' = "disconnect" /\ reorgs' = IF reorg = "none" THEN reorgs + 1 ELSE reorgs
        /\ UNCHANGED prioritised

\* Faulty: the children that were in the pool first stay unknown to their parents.
UpdateTransactionsFromBlock_Nothing(P, hashes) == P

\* Links and totals between the transactions that came back and the descendants that
\* were here all along.
UpdateTransactionsFromBlock(P, hashes) ==
    LET included == Range(hashes)
        update(Q, t) ==
            LET new  == (Spenders(Q, OutputsOf(t)) \ included) \ Q.mapTx[t].children
                R    == [Q EXCEPT !.mapTx = [x \in In(Q) |->
                             [Q.mapTx[x] EXCEPT
                                 !.children = IF x = t THEN @ \cup new ELSE @,
                                 !.parents  = IF x \in new THEN @ \cup {t} ELSE @]],
                             !.cachedInnerUsage = @ + 2 * Cardinality(new)]
                down == CalculateDescendants(R, R.mapTx[t].children) \ included
            IN  [R EXCEPT !.mapTx = [x \in In(R) |->
                    [R.mapTx[x] EXCEPT
                        !.desc = IF x = t THEN Plus(@, Total(R, down)) ELSE @,
                        !.anc  = IF x \in down THEN Plus(@, Total(R, {t})) ELSE @]]]
    IN  FoldLeft(LAMBDA Q, t : IF t \in In(Q) THEN update(Q, t) ELSE Q, P, Reverse(hashes))

\* Transactions that are no longer final or spend what is immature.
removeForReorg(P) ==
    RemoveStaged(P, CalculateDescendants(P, {t \in In(P) : ~Final(t, chain)}), FALSE, "REORG")

\* UpdateMempoolForReorg.  fAddToMempool is false after a failure and in deep
\* invalidations.
UpdateMempoolForReorg(fAddToMempool) ==
    LET returned == FoldLeft(
            LAMBDA a, t :
                IF fAddToMempool /\ Whole(pool, t) /\ PreChecks(a.pool, chain, t, TRUE)
                THEN [pool |-> Finalize(a.pool, t), hashes |-> Append(a.hashes, t)]
                ELSE [a EXCEPT !.pool = removeRecursive(@, t, "REORG")],
            [pool |-> pool, hashes |-> <<>>], Reverse(disconnectpool))
        P == removeForReorg(UpdateTransactionsFromBlock(returned.pool, returned.hashes))
    IN  /\ reorg # "none"
        /\ reorg' = "none" /\ disconnectpool' = <<>>
        /\ \E old \in AtMostOne(In(P)) : pool' = LimitMempoolSize(P, old)
        /\ UNCHANGED <<chain, reorgs, prioritised>>

Next ==
    \/ \E t \in TxSet : AcceptToMemoryPool(t) \/ PrioritiseTransaction(t)
    \/ MinFeeDecays
    \/ \E S \in SUBSET TxSet : ConnectTip(S)
    \/ \E order \in {Tx, Reverse(Tx)} : DisconnectTip(order)
    \/ \E add \in BOOLEAN : UpdateMempoolForReorg(add)

Spec == Init /\ [][Next]_vars

-----------------------------------------------------------------------------
(* Properties *)

\* The types of CTxMemPool's state: links lead to entries only, and no total that the
\* removals count down drops below what an entry itself adds to it.
TypeOK ==
    /\ In(pool) \subseteq TxSet
    /\ \A t \in In(pool) : LET e == pool.mapTx[t] IN
           /\ e.parents \subseteq In(pool) /\ e.children \subseteq In(pool)
           /\ \A s \in {e.anc, e.desc} : s \in [count : Nat \ {0}, size : Nat, fees : Nat]
    /\ DOMAIN pool.mapNextTx \subseteq Outpoint /\ Range(pool.mapNextTx) \subseteq In(pool)
    /\ pool.cachedInnerUsage \in Nat /\ pool.rollingMinimumFeeRate \in Nat
    /\ reorg \in {"none", "disconnect", "connect"}
    /\ chain \in Seq(SUBSET TxSet) /\ disconnectpool \in Seq(TxSet)

\* The pool never stays above -maxmempool: AcceptToMemoryPool and the end of a
\* reorganisation, which lets transactions in without limits, trim it.
Limited == reorg = "none" => Usage(pool) <= LimitUsage

\* CTxMemPool::check: no two entries spend the same output, and the parents and
\* children of each are those its inputs and mapNextTx say, also after blocks that
\* held some of them came and went.  The pool is well typed throughout, within a
\* reorganisation too.
LinksExact ==
    /\ TypeOK
    /\ reorg = "none" =>
          /\ pool.mapNextTx = [o \in UNION {Inputs[t] : t \in In(pool)} |->
                                  CHOOSE t \in In(pool) : o \in Inputs[t]]
          /\ \A t, u \in In(pool) : t # u => Inputs[t] \cap Inputs[u] = {}
          /\ \A t \in In(pool) :
                 /\ pool.mapTx[t].parents = Owners(t) \cap In(pool)
                 /\ pool.mapTx[t].children = {u \in In(pool) : t \in Owners(u)}

RECURSIVE Upwards(_)
Upwards(S) == LET T == S \cup (UNION {Owners(t) : t \in S} \cap In(pool))
              IN  IF T = S THEN S ELSE Upwards(T)

\* CTxMemPool::check: the totals that eviction and mining sort by are those of the
\* ancestors and descendants there are, the fee is the transaction's with its
\* delta, and the memory in use is that of the entries and their links.
TotalsExact ==
    reorg = "none" =>
        /\ \A t \in In(pool) : LET e == pool.mapTx[t] IN
               /\ e.fee = Fee[t] + pool.mapDeltas[t]
               /\ e.anc = Total(pool, Upwards({t}))
               /\ e.desc = Total(pool, {u \in In(pool) : t \in Upwards({u})})
        /\ pool.cachedInnerUsage = Cardinality(In(pool)) + Links(pool.mapTx, In(pool))

\* CTxMemPool::check: every input of an entry is an output that is unspent in the
\* active chain, or of another entry; no entry is confirmed.
InputsAvailable ==
    reorg = "none" =>
        /\ In(pool) \cap Confirmed(chain) = {}
        /\ \A t \in In(pool) : \A o \in Inputs[t] : o[1] \in In(pool) \/ o \in Utxo(chain)
=============================================================================
