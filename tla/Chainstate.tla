----------------------------- MODULE Chainstate -----------------------------
(***************************************************************************)
(* Which chain is active: ProcessNewBlock, ActivateBestChain,              *)
(* InvalidateBlock, PreciousBlock, ResetBlockFailureFlags, pruning and     *)
(* restart, as the threads of a node call them.                            *)
(*                                                                         *)
(* Two locks order them.  cs_main protects the block index; an action that *)
(* takes it is one step.  m_cs_chainstate keeps ActivateBestChain and      *)
(* InvalidateBlock apart; both give up cs_main between two rounds, and     *)
(* then headers, blocks and commands of other threads get in.              *)
(*                                                                         *)
(* ActivateBestChain under cs_main is split into the block connections and *)
(* disconnections it is made of; no other thread sees the states between.  *)
(***************************************************************************)
EXTENDS BlockTree

CONSTANTS
    BadBody,           \* blocks ContextualCheckBlock refuses
    Bad,               \* blocks ConnectBlock refuses
    Mutated,           \* blocks ConnectBlock refuses as BLOCK_MUTATED
    MinimumChainWork,  \* nMinimumChainWork
    MinBlocksToKeep,   \* MIN_BLOCKS_TO_KEEP
    Invalidated, Reconsidered, Precious, Prunable,
                       \* the blocks the operator's commands and pruning are about
    MaxCommands,       \* bound: operator commands, prunings and restarts
    MaxRestarts,       \* bound: restarts among them
    MinSequenceId      \* the least nSequenceId: int32 min

\* The genesis block is part of the program: it is stored without a check.
ASSUME GenesisAssumption == Genesis \notin BadBody

VARIABLES
    x,          \* the block index record of BlockTree
    nextSeq,    \* nBlockSequenceId
    precious,   \* [seq: nBlockReverseSequenceId, work: nLastPreciousChainwork]
    abc,        \* the thread inside ActivateBestChain
    inv,        \* the thread inside InvalidateBlock
    pending,    \* some thread is about to call ActivateBestChain
    commands, restarts, pruned

vars == <<x, nextSeq, precious, abc, inv, pending, commands, restarts, pruned>>

\* pc of ActivateBestChain: outside, at the top of the outer loop without cs_main,
\* looking for the best chain, on the way to it, at the end of the inner loop.
NotRunning == [pc |-> "outside", mostWork |-> NoBlock, starting |-> NoBlock,
               oldTip |-> NoBlock, newTip |-> NoBlock, connected |-> FALSE]

NotInvalidating == [block |-> NoBlock, mark |-> NoBlock, byWork |-> {}]

csMainFree     == abc.pc \in {"outside", "outer"}
chainstateFree == abc.pc = "outside" /\ inv = NotInvalidating

\* The network and the RPC server start after the genesis block is connected.
Ready == csMainFree /\ x.tip # NoBlock

Init ==
    /\ x = [known |-> {Genesis}, processed |-> {Genesis}, data |-> {Genesis},
            linked |-> {Genesis}, scripts |-> {}, failed |-> [b \in Block |-> {}],
            seq |-> [b \in Block |-> IF b = Genesis THEN 1 ELSE 0],
            unlinked |-> {}, failedBlocks |-> {}, candidates |-> {Genesis},
            tip |-> NoBlock]
    /\ nextSeq = 2
    /\ precious = [seq |-> -1, work |-> 0]
    /\ abc = NotRunning
    /\ inv = NotInvalidating
    /\ pending = TRUE
    /\ commands = 0 /\ restarts = 0 /\ pruned = FALSE

-----------------------------------------------------------------------------
(* Message handler threads *)

\* ProcessNewBlockHeaders, one header.
NewHeader(b) ==
    /\ Ready
    /\ b \notin x.known
    /\ x' = AcceptBlockHeader(x, b)
    /\ UNCHANGED <<nextSeq, precious, abc, inv, pending, commands, restarts, pruned>>

\* AcceptBlock's reasons not to process a block nobody asked for.
Unwanted(y, b) ==
    \/ b \in y.processed
    \/ Work[b] < Work[y.tip]
    \/ Height[b] > Height[y.tip] + MinBlocksToKeep
    \/ Work[b] < MinimumChainWork

\* ProcessNewBlock up to its call of ActivateBestChain, which follows unless
\* the block was refused.
NewBlock(b, fRequested) ==
    LET y == AcceptBlockHeader(x, b)
        stored == /\ HeaderAccepted(x, b)
                  /\ b \notin y.data
                  /\ fRequested \/ ~Unwanted(y, b)
    IN
    /\ Ready
    /\ \/ /\ stored /\ b \notin BadBody
          /\ \E numbering \in Numberings(NewlyLinked(y, b), nextSeq) :
                 x' = ReceivedBlockTransactions(y, b, numbering)
          /\ nextSeq' = nextSeq + Cardinality(NewlyLinked(y, b))
          /\ pending' = TRUE
       \/ /\ stored /\ b \in BadBody
          /\ x' = MarkFailed(y, {b}, "VALID")
          /\ UNCHANGED <<nextSeq, pending>>
       \/ /\ ~stored
          /\ x' = y
          /\ pending' = (pending \/ HeaderAccepted(x, b))
          /\ UNCHANGED nextSeq
    /\ UNCHANGED <<precious, abc, inv, commands, restarts, pruned>>

-----------------------------------------------------------------------------
(* ActivateBestChain *)

abcUnchanged == UNCHANGED <<nextSeq, precious, inv, pending, commands, restarts, pruned>>

\* A thread takes m_cs_chainstate.
Enter ==
    /\ pending /\ chainstateFree
    /\ pending' = FALSE
    /\ abc' = [NotRunning EXCEPT !.pc = "outer"]
    /\ UNCHANGED <<x, nextSeq, precious, inv, commands, restarts, pruned>>

\* It takes cs_main.
LockMain ==
    /\ abc.pc = "outer"
    /\ abc' = [abc EXCEPT !.pc = "find", !.starting = x.tip, !.connected = FALSE]
    /\ UNCHANGED x
    /\ abcUnchanged

\* The end of a round of the outer loop: return when the chosen tip is reached.
LeaveRound(a) ==
    IF a.newTip # a.mostWork THEN [a EXCEPT !.pc = "outer"] ELSE NotRunning

\* What FindMostWorkChain returns; pindexMostWork of an earlier round is used again.
MostWorkFound ==
    IF abc.mostWork # NoBlock THEN {abc.mostWork}
    ELSE IF x.candidates = {} THEN {NoBlock}
    ELSE {c \in BestCandidates(x) : Unusable(x, c) = {}}

\* FindMostWorkChain: a round that drops a candidate, or the one that returns.
FindMostWork ==
    /\ abc.pc = "find"
    /\ \/ /\ abc.mostWork = NoBlock
          /\ \E c \in BestCandidates(x) : /\ Unusable(x, c) # {}
                                         /\ x' = DropCandidate(x, c)
          /\ UNCHANGED abc
       \/ /\ \E most \in MostWorkFound :
                LET a == [abc EXCEPT !.mostWork = most]
                IN abc' = IF most \notin {NoBlock, x.tip}
                          THEN [a EXCEPT !.pc = "step", !.oldTip = x.tip, !.connected = TRUE]
                          ELSE IF abc.connected THEN LeaveRound(a)
                          ELSE NotRunning
          /\ UNCHANGED x
    /\ abcUnchanged

\* ActivateBestChainStep, the loop that disconnects.
StepDisconnect ==
    /\ abc.pc = "step"
    /\ x.tip \notin Ancestors[abc.mostWork] \cup {NoBlock}
    /\ IF x.tip \in x.data
       THEN x' = [x EXCEPT !.tip = Parent[x.tip]] /\ UNCHANGED abc
       ELSE abc' = [abc EXCEPT !.pc = "aborted"] /\ UNCHANGED x
    /\ abcUnchanged

\* The next block on the way to pindexMostWork.
NextToConnect ==
    CHOOSE b \in Ancestors[abc.mostWork] :
        Height[b] = IF x.tip = NoBlock THEN 0 ELSE Height[x.tip] + 1

\* ActivateBestChainStep, one ConnectTip.  It stops when the tip is better than
\* the one it began with, at pindexMostWork, or at an invalid block.
StepConnect ==
    LET b == NextToConnect
        y == TipConnected(x, b)
        stop == \/ abc.oldTip = NoBlock \/ b = abc.mostWork
                \/ Work[b] > Work[abc.oldTip]
    IN
    /\ abc.pc = "step"
    /\ x.tip \in Ancestors[abc.mostWork] \cup {NoBlock}
    /\ \/ /\ b \notin x.data
          /\ abc' = [abc EXCEPT !.pc = "aborted"]
          /\ UNCHANGED x
       \/ /\ b \in x.data \ (Bad \cup Mutated)
          /\ x' = y
          /\ abc' = IF stop THEN [abc EXCEPT !.pc = "progress", !.newTip = b] ELSE abc
       \/ /\ b \in x.data \cap Bad
          /\ x' = InvalidBlockFound(x, b)
          /\ abc' = [abc EXCEPT !.pc = "progress", !.newTip = x.tip, !.mostWork = NoBlock]
       \/ /\ b \in x.data \cap Mutated
          /\ abc' = [abc EXCEPT !.pc = "progress", !.newTip = x.tip, !.mostWork = NoBlock]
          /\ UNCHANGED x
    /\ abcUnchanged

\* Faulty Progress: the round always ends.
Progress_Always ==
    /\ abc.pc = "progress"
    /\ abc' = LeaveRound(abc)
    /\ UNCHANGED x
    /\ abcUnchanged

\* The inner loop goes on while the tip is worse than at its start; otherwise
\* the round is over, cs_main is released, and the next one begins or not.
Progress ==
    /\ abc.pc = "progress"
    /\ abc' = IF \/ x.tip = NoBlock
                 \/ abc.starting # NoBlock /\ Worse(x, x.tip, abc.starting)
              THEN [abc EXCEPT !.pc = "find"]
              ELSE LeaveRound(abc)
    /\ UNCHANGED x
    /\ abcUnchanged

-----------------------------------------------------------------------------
(* InvalidateBlock *)

Command == Ready /\ commands < MaxCommands /\ commands' = commands + 1

InvalidateBlock(b) ==
    /\ Command
    /\ chainstateFree
    /\ b \in x.known \ {Genesis}
    /\ inv' = [block |-> b, mark |-> b, byWork |-> CandidateBlocksByWork(x, b)]
    /\ UNCHANGED <<x, nextSeq, precious, abc, pending, restarts, pruned>>

\* A round of its loop.  DisconnectTip fails when the block's data is gone: the
\* function returns, and the caller goes on to ActivateBestChain.
InvalidateRound ==
    /\ inv # NotInvalidating
    /\ inv.block \in Chain(x)
    /\ IF x.tip \in x.data
       THEN /\ x' = InvalidateTip(x, inv.mark, inv.byWork)
            /\ inv' = [inv EXCEPT !.mark = x.tip,
                                  !.byWork = {c \in @ : Worse(x, c, Parent[x.tip])}]
            /\ UNCHANGED pending
       ELSE /\ inv' = NotInvalidating
            /\ pending' = TRUE
            /\ UNCHANGED x
    /\ UNCHANGED <<nextSeq, precious, abc, commands, restarts, pruned>>

\* After the loop and CheckBlockIndex; the caller goes on to ActivateBestChain.
InvalidateEnd ==
    /\ inv # NotInvalidating
    /\ inv.block \notin Chain(x)
    /\ x' = InvalidateDone(x, inv.mark)
    /\ inv' = NotInvalidating
    /\ pending' = TRUE
    /\ UNCHANGED <<nextSeq, precious, abc, commands, restarts, pruned>>

-----------------------------------------------------------------------------
(* The other commands, pruning, restart *)

\* reconsiderblock
ReconsiderBlock(b) ==
    /\ Command
    /\ b \in x.known
    /\ x' = ResetBlockFailureFlags(x, b)
    /\ pending' = TRUE
    /\ UNCHANGED <<nextSeq, precious, abc, inv, restarts, pruned>>

\* preciousblock
MakePrecious(b) ==
    LET seq == IF Work[x.tip] > precious.work THEN -1 ELSE precious.seq IN
    /\ Command
    /\ b \in x.known /\ Work[b] >= Work[x.tip]
    /\ precious' = [seq |-> IF seq > MinSequenceId THEN seq - 1 ELSE seq,
                    work |-> Work[x.tip]]
    /\ x' = PreciousBlock(x, b, seq)
    /\ pending' = TRUE
    /\ UNCHANGED <<nextSeq, abc, inv, restarts, pruned>>

\* FlushStateToDisk removes a block file, every block of it far below the tip;
\* it is called with cs_main held, also from inside ActivateBestChain.
Prune(b) ==
    /\ x.tip # NoBlock
    /\ commands < MaxCommands /\ commands' = commands + 1
    /\ b \in x.data
    /\ Height[b] + MinBlocksToKeep <= Height[x.tip]
    /\ x' = PruneOneBlockFile(x, {b})
    /\ pruned' = TRUE
    /\ UNCHANGED <<nextSeq, precious, abc, inv, pending, restarts>>

\* An orderly shutdown writes everything; the next start loads it and activates.
Restart ==
    /\ Command
    /\ chainstateFree
    /\ restarts < MaxRestarts
    /\ restarts' = restarts + 1
    /\ x' = LoadBlockIndex(x)
    /\ nextSeq' = 1
    /\ precious' = [seq |-> -1, work |-> 0]
    /\ pending' = TRUE
    /\ UNCHANGED <<abc, inv, pruned>>

ActivateBestChain ==
    Enter \/ LockMain \/ FindMostWork \/ StepDisconnect \/ StepConnect \/ Progress

Next ==
    \/ \E b \in Block \ {Genesis} : NewHeader(b)
    \/ \E b \in Block \ {Genesis}, fRequested \in BOOLEAN : NewBlock(b, fRequested)
    \/ ActivateBestChain
    \/ \E b \in Invalidated : InvalidateBlock(b)
    \/ InvalidateRound
    \/ InvalidateEnd
    \/ \E b \in Reconsidered : ReconsiderBlock(b)
    \/ \E b \in Precious : MakePrecious(b)
    \/ \E b \in Prunable : Prune(b)
    \/ Restart

Spec == Init /\ [][Next]_vars

\* The threads inside the two functions keep running; a lock holder waits for
\* nothing that another holder of the lock must do.
FairSpec == Spec /\ WF_vars(ActivateBestChain)
                 /\ WF_vars(InvalidateRound) /\ WF_vars(InvalidateEnd)

-----------------------------------------------------------------------------
(* Properties *)

\* The type of the block index, of the two threads' locals and of the counters.
TypeOK ==
    LET BlockOrNone == Block \cup {NoBlock} IN
    /\ x \in [known : SUBSET Block, processed : SUBSET x.known, data : SUBSET x.processed,
              linked : SUBSET x.processed, scripts : SUBSET x.processed,
              failed : [Block -> SUBSET FailedMask], seq : [Block -> MinSequenceId..nextSeq],
              unlinked : SUBSET x.processed, failedBlocks : SUBSET x.known,
              candidates : SUBSET x.known, tip : x.known \cup {NoBlock}]
    /\ abc \in [pc : {"outside", "outer", "find", "step", "progress", "aborted"},
                mostWork : BlockOrNone, starting : BlockOrNone, oldTip : BlockOrNone,
                newTip : BlockOrNone, connected : BOOLEAN]
    /\ inv \in [block : BlockOrNone, mark : BlockOrNone, byWork : SUBSET Block]
    /\ precious.seq \in MinSequenceId..-1 /\ precious.work \in Nat
    /\ pending \in BOOLEAN /\ pruned \in BOOLEAN
    /\ commands \in 0..MaxCommands /\ restarts \in 0..MaxRestarts

\* pindexFirstInvalid of CheckBlockIndex: an invalid block at or below b.
HasInvalid(b) == \E a \in Ancestors[b] : "VALID" \in x.failed[a]

\* The candidate set is exactly what CheckBlockIndex asserts: a block that sorts
\* at least as good as the tip, is valid and has all its data is in it (the tip
\* always), and no block that sorts worse or is not linked is.
CandidatesExact ==
    \A b \in x.known :
        IF Ancestors[b] \subseteq x.processed /\ ~Worse(x, b, x.tip)
        THEN ~HasInvalid(b) /\ (Ancestors[b] \subseteq x.data \/ b = x.tip)
                 => b \in x.candidates
        ELSE b \notin x.candidates

\* m_blocks_unlinked is what CheckBlockIndex asserts: the blocks that wait for the
\* data of an ancestor, and none without data of its own or with all of it.
UnlinkedExact ==
    \A b \in x.known \ {Genesis} :
        /\ b \in x.unlinked => b \in x.data /\ ~(Ancestors[b] \subseteq x.data)
        /\ /\ b \in x.data /\ ~HasInvalid(b)
           /\ \/ ~(Ancestors[b] \subseteq x.processed)
              \/ /\ ~(Ancestors[b] \subseteq x.data)
                 /\ ~Worse(x, b, x.tip) /\ b \notin x.candidates
           => b \in x.unlinked

\* A block is marked as failed only when it or an ancestor is invalid (the
\* "failed mask" assertion of CheckBlockIndex).
FailureHasCause ==
    \A b \in x.known : x.failed[b] # {} => HasInvalid(b)

\* The per-block assertions of CheckBlockIndex: linked means every ancestor was
\* processed, script validity is inherited, sequence numbers are for linked blocks.
IndexConsistent ==
    \A b \in x.known :
        /\ b \in x.linked <=> Ancestors[b] \subseteq x.processed
        /\ b \notin x.linked => x.seq[b] <= 0
        /\ b \in x.scripts => Ancestors[b] \ {Genesis} \subseteq x.scripts
        /\ ~pruned => (b \in x.data <=> b \in x.processed)

\* What CheckBlockIndex asserts holds whenever a thread can take cs_main to call
\* it, except between the rounds of InvalidateBlock.  Also between them the index
\* is well typed, the candidates are never empty (the assertion in
\* PruneBlockIndexCandidates) and m_failed_blocks holds invalid blocks only (the
\* one in AcceptBlockHeader).
CheckBlockIndex ==
    /\ TypeOK
    /\ x.candidates # {}
    /\ \A b \in x.failedBlocks : "VALID" \in x.failed[b]
    /\ Ready /\ inv = NotInvalidating =>
          CandidatesExact /\ UnlinkedExact /\ FailureHasCause /\ IndexConsistent

\* The active chain never holds a block that is invalid, known to be invalid, or
\* was never fully received, whenever another thread can look at it.
ActiveChainValid ==
    Ready => \A a \in Chain(x) : /\ a \notin Bad \cup BadBody \cup Mutated
                                 /\ x.failed[a] = {}
                                 /\ a \in x.linked

\* When ActivateBestChain has returned and no call is due, no chain with more work
\* is left aside: each one lacks a block's data or holds a block marked invalid.
TipHasMostWork ==
    Ready /\ chainstateFree /\ ~pending =>
        \A b \in x.known : Work[b] > Work[x.tip] =>
            \E a \in Ancestors[b] \ Chain(x) : a \notin x.data \/ x.failed[a] # {}

\* "We absolutely may not unlock cs_main until we've made forward progress": when
\* ActivateBestChain lets go of cs_main, the tip it leaves sorts no worse than the
\* one it found, even when blocks on the way to the new tip were invalid.
NeverBackward ==
    [][abc.pc \in {"find", "progress"} /\ abc'.pc \in {"outer", "outside"}
           /\ abc.starting # NoBlock => ~Worse(x, x'.tip, abc.starting)]_vars

\* Every call of ActivateBestChain that is due is made, and every call returns,
\* however many headers, blocks and commands other threads bring in between.
ActivationReturns ==
    /\ pending ~> ~pending
    /\ abc.pc # "outside" ~> abc.pc = "outside"

\* "Can't be in m_blocks_unlinked if we don't HAVE_DATA" (CheckBlockIndex).
UnlinkedHaveData == Ready /\ inv = NotInvalidating => x.unlinked \subseteq x.data
=============================================================================
