----------------------------- MODULE BaseIndex -----------------------------
(***************************************************************************)
(* An index of the active chain beside the node (src/index/base.cpp), in   *)
(* the form of the block filter index (src/index/blockfilterindex.cpp),    *)
(* which has most state: filters in a file, the position of each block's   *)
(* filter by height, and by hash for blocks that left the chain.           *)
(*                                                                         *)
(* Three threads meet: validation moves the tip and queues callbacks under *)
(* cs_main, ThreadSync catches up from behind, and the scheduler runs the  *)
(* callbacks one after the other (CallbackQueue).  A reader calls          *)
(* BlockUntilSyncedToCurrentChain.  Disk errors are left out.              *)
(***************************************************************************)
EXTENDS Ancestry, Sequences, FiniteSets

CONSTANTS
    MaxTipChanges, MaxFlushes, MaxRestarts, MaxReads,
    Crashes,          \* the node may crash
    EarlyInterrupts   \* a shutdown may begin before the sync thread has its first block

None == [block |-> NoBlock, pos |-> 0]
Heights == {Height[b] : b \in Block}

VARIABLES
    tip,        \* ::ChainActive().Tip()
    flushed,    \* the tip of the chain state on disk
    queue,      \* pending callbacks: BlockConnected, ChainStateFlushed, sync
    m_synced, m_best_block_index, m_next_filter_pos, m_interrupt,
    db,         \* the index's database: height, hash, locator, DB_FILTER_POS
    file,       \* the filter files: position -> block, read back as its filter
    sync,       \* ThreadSync: place, pindex, whether it has written a locator
    call,       \* the callback that runs: place, kind and block
    reader,     \* BlockUntilSyncedToCurrentChain: place, and the tip it saw
    halted,     \* "no", "assert" (the process aborted) or "fatal"
    tipChanges, flushes, restarts, reads

memory  == <<m_synced, m_best_block_index, m_next_filter_pos, m_interrupt>>
disk    == <<db, file>>
counts  == <<tipChanges, flushes, restarts, reads>>
vars == <<tip, flushed, queue, memory, disk, sync, call, reader, halted, counts>>

Init ==
    /\ tip \in Block /\ flushed = tip /\ queue = <<>>
    /\ m_synced = FALSE /\ m_best_block_index = NoBlock /\ m_next_filter_pos = 0
    /\ m_interrupt = FALSE
    /\ db = [height |-> [h \in Heights |-> None], hash |-> [b \in Block |-> None],
             locator |-> NoBlock, pos |-> 0]
    /\ file = <<>>
    /\ sync = [pc |-> "loop", pindex |-> NoBlock, wrote |-> FALSE]
    /\ call = [pc |-> "none", block |-> NoBlock]
    /\ reader = [pc |-> "none", block |-> NoBlock]
    /\ halted = "no"
    /\ tipChanges = 0 /\ flushes = 0 /\ restarts = 0 /\ reads = 0

Running == halted = "no"

\* ThreadSync sets m_synced and commits under cs_main.
MainLockFree == sync.pc # "commit"

-----------------------------------------------------------------------------
(* Validation *)

\* The blocks that ActivateBestChain connects on the way to b, in order.
Connected(b) ==
    LET from == Height[LastCommonAncestor(tip, b)]
    IN  [i \in 1..(Height[b] - from) |->
            [kind |-> "connected", block |-> GetAncestor(b, from + i)]]

\* The tip moves by a new block, a reorganisation or an invalidation, and the
\* BlockConnected callbacks are queued in the same critical section.
ActivateChain(b) ==
    /\ Running /\ MainLockFree /\ b # tip /\ tipChanges < MaxTipChanges
    /\ tip' = b /\ queue' = queue \o Connected(b)
    /\ tipChanges' = tipChanges + 1
    /\ UNCHANGED <<flushed, memory, disk, sync, call, reader, halted, flushes, restarts,
                   reads>>

\* FlushStateToDisk, which queues ChainStateFlushed.
FlushChain ==
    /\ Running /\ MainLockFree /\ flushes < MaxFlushes
    /\ flushed' = tip
    /\ queue' = Append(queue, [kind |-> "flushed", block |-> tip])
    /\ flushes' = flushes + 1
    /\ UNCHANGED <<tip, memory, disk, sync, call, reader, halted, tipChanges, restarts,
                   reads>>

-----------------------------------------------------------------------------
(* The database *)

\* Commit: the locator of the best block, and the position, in one batch.  For a
\* null best block GetLocator takes the tip of the active chain.
Committed(d, best) ==
    [d EXCEPT !.locator = IF best = NoBlock THEN tip ELSE best,
              !.pos = m_next_filter_pos]

\* Faulty: the hash index gets only the blocks above the fork's successor.
Copied_OffByOne(d, from, to) ==
    [d EXCEPT !.hash = [b \in Block |->
        IF \E h \in to + 1..from - 1 : d.height[h].block = b
        THEN d.height[Height[b]] ELSE @[b]],
        !.pos = m_next_filter_pos]

\* The part of BlockFilterIndex::Rewind before BaseIndex::Rewind.
Copied(d, from, to) ==
    [d EXCEPT !.hash = [b \in Block |->
        IF \E h \in to..from : d.height[h].block = b THEN d.height[Height[b]] ELSE @[b]],
        !.pos = m_next_filter_pos]

\* WriteBlock succeeds when the entry below is the previous block's.
MayWrite(b) == b = Genesis \/ db.height[Height[b] - 1].block = Parent[b]

\* Faulty: the next filter goes to the same place.
WriteBlock_SamePos(b) ==
    /\ file' = [p \in DOMAIN file \cup {m_next_filter_pos} |->
                   IF p = m_next_filter_pos THEN b ELSE file[p]]
    /\ db' = [db EXCEPT !.height[Height[b]] = [block |-> b, pos |-> m_next_filter_pos]]
    /\ UNCHANGED m_next_filter_pos

WriteBlock(b) ==
    /\ file' = [p \in DOMAIN file \cup {m_next_filter_pos} |->
                   IF p = m_next_filter_pos THEN b ELSE file[p]]
    /\ db' = [db EXCEPT !.height[Height[b]] = [block |-> b, pos |-> m_next_filter_pos]]
    /\ m_next_filter_pos' = m_next_filter_pos + 1

\* LookupOne, and reading the filter at the position it gives.
Lookup(b) ==
    LET e == IF db.height[Height[b]].block = b THEN db.height[Height[b]] ELSE db.hash[b]
    IN  IF e # None /\ e.pos \in DOMAIN file THEN file[e.pos] ELSE NoBlock

-----------------------------------------------------------------------------
(* ThreadSync *)

\* Faulty: the next height, on whatever branch.
NextSyncBlock_ByHeight(p) ==
    IF p = NoBlock THEN Genesis ELSE GetAncestor(tip, Height[p] + 1)

NextSyncBlock(p) ==
    IF p = NoBlock THEN Genesis
    ELSE GetAncestor(tip, Height[LastCommonAncestor(p, tip)] + 1)

\* m_interrupt: remember how far the thread came.
SyncInterrupted ==
    /\ Running /\ sync.pc = "loop" /\ m_interrupt
    /\ m_best_block_index' = sync.pindex
    /\ db' = Committed(db, sync.pindex)
    /\ sync' = [sync EXCEPT !.pc = "ended"]
    /\ UNCHANGED <<tip, flushed, queue, m_synced, m_next_filter_pos, m_interrupt, file, call,
                   reader, halted, counts>>

\* Faulty: the flag is set before the best block.
SyncDone_FlagFirst ==
    /\ Running /\ sync.pc = "loop" /\ ~m_interrupt /\ NextSyncBlock(sync.pindex) = NoBlock
    /\ m_synced' = TRUE
    /\ sync' = [sync EXCEPT !.pc = "commit"]
    /\ UNCHANGED <<tip, flushed, queue, m_best_block_index, m_next_filter_pos, m_interrupt,
                   disk, call, reader, halted, counts>>

\* Nothing is left to do: the callbacks take over.
SyncDone ==
    /\ Running /\ sync.pc = "loop" /\ ~m_interrupt /\ NextSyncBlock(sync.pindex) = NoBlock
    /\ m_best_block_index' = sync.pindex /\ m_synced' = TRUE
    /\ sync' = [sync EXCEPT !.pc = "commit"]
    /\ UNCHANGED <<tip, flushed, queue, m_next_filter_pos, m_interrupt, disk, call, reader,
                   halted, counts>>

\* The commit after it, still under cs_main.
SyncCommit ==
    /\ Running /\ sync.pc = "commit"
    /\ db' = Committed(db, m_best_block_index)
    /\ sync' = [sync EXCEPT !.pc = "ended"]
    /\ UNCHANGED <<tip, flushed, queue, memory, file, call, reader, halted, counts>>

\* The next block is on the branch the thread is on.
SyncNext ==
    LET next == NextSyncBlock(sync.pindex)
    IN  /\ Running /\ sync.pc = "loop" /\ ~m_interrupt
        /\ next # NoBlock /\ Prev(next) = sync.pindex
        /\ sync' = [sync EXCEPT !.pc = "read", !.pindex = next]
        /\ UNCHANGED <<tip, flushed, queue, memory, disk, call, reader, halted, counts>>

\* The chain was reorganised: Rewind, whose assertion holds only when the best
\* block is the one the thread has come to.
SyncRewind ==
    LET next == NextSyncBlock(sync.pindex)
    IN  /\ Running /\ sync.pc = "loop" /\ ~m_interrupt
        /\ next # NoBlock /\ Prev(next) # sync.pindex
        /\ LET copied == Copied(db, Height[sync.pindex], Height[Prev(next)])
           IN  IF m_best_block_index = sync.pindex
               THEN /\ m_best_block_index' = Prev(next)
                    /\ db' = Committed(copied, Prev(next))
                    /\ sync' = [sync EXCEPT !.pc = "read", !.pindex = next]
                    /\ UNCHANGED halted
               ELSE /\ db' = copied /\ halted' = "assert"
                    /\ UNCHANGED <<m_best_block_index, sync>>
        /\ UNCHANGED <<tip, flushed, queue, m_synced, m_next_filter_pos, m_interrupt, file,
                       call, reader, counts>>

\* In the first round and then every SYNC_LOCATOR_WRITE_INTERVAL the best block is
\* set and committed, ahead of WriteBlock.
SyncWriteLocator ==
    /\ Running /\ sync.pc = "read" /\ MainLockFree
    /\ m_best_block_index' = sync.pindex
    /\ db' = Committed(db, sync.pindex)
    /\ sync' = [sync EXCEPT !.pc = "write", !.wrote = TRUE]
    /\ UNCHANGED <<tip, flushed, queue, m_synced, m_next_filter_pos, m_interrupt, file, call,
                   reader, halted, counts>>

SyncWriteBlock ==
    /\ Running /\ sync.pc \in {"read", "write"} /\ sync.wrote
    /\ IF MayWrite(sync.pindex)
       THEN /\ WriteBlock(sync.pindex)
            /\ sync' = [sync EXCEPT !.pc = "loop"] /\ UNCHANGED halted
       ELSE /\ halted' = "fatal" /\ UNCHANGED <<disk, m_next_filter_pos, sync>>
    /\ UNCHANGED <<tip, flushed, queue, m_synced, m_best_block_index, m_interrupt, call,
                   reader, counts>>

ThreadSync ==
    \/ SyncInterrupted \/ SyncDone \/ SyncCommit \/ SyncNext \/ SyncRewind
    \/ SyncWriteLocator \/ SyncWriteBlock

-----------------------------------------------------------------------------
(* The callbacks *)

\* Faulty: the block is only compared with the best block itself.
Connects_TipOnly(b) == m_best_block_index = Prev(b)

\* BlockConnected: the block's parent is on the best block's chain.  The active
\* chain is never empty here, so an index that is synced has a best block.
Connects(b) == GetAncestor(m_best_block_index, Height[b] - 1) = Prev(b)

\* The callback up to its first write.
BlockConnected(b) ==
    \/ /\ m_synced => ~Connects(b)
       /\ UNCHANGED <<call, m_best_block_index, db>>
    \/ /\ m_synced /\ Connects(b) /\ m_best_block_index = Prev(b)
       /\ call' = [pc |-> "write", block |-> b]
       /\ UNCHANGED <<m_best_block_index, db>>
    \/ /\ m_synced /\ Connects(b) /\ m_best_block_index # Prev(b)
       /\ db' = Copied(db, Height[m_best_block_index], Height[Prev(b)])
       /\ m_best_block_index' = Prev(b)
       /\ call' = [pc |-> "rewind", block |-> b]

ChainStateFlushed(b) ==
    /\ call' = IF m_synced /\ GetAncestor(m_best_block_index, Height[b]) = b
               THEN [pc |-> "commit", block |-> b] ELSE call
    /\ UNCHANGED <<m_best_block_index, db>>

\* The scheduler takes the next callback.
BeginCallback ==
    /\ Running /\ call.pc = "none" /\ queue # <<>>
    /\ queue' = Tail(queue)
    /\ \/ Head(queue).kind = "connected" /\ BlockConnected(Head(queue).block)
          /\ UNCHANGED reader
       \/ Head(queue).kind = "flushed" /\ ChainStateFlushed(Head(queue).block)
          /\ UNCHANGED reader
       \/ Head(queue).kind = "sync" /\ reader' = [reader EXCEPT !.pc = "true"]
          /\ UNCHANGED <<call, m_best_block_index, db>>
    /\ UNCHANGED <<tip, flushed, m_synced, m_next_filter_pos, m_interrupt, file, sync, halted,
                   counts>>

\* Commit, in Rewind or in ChainStateFlushed.
CallbackCommit ==
    /\ Running /\ call.pc \in {"rewind", "commit"} /\ MainLockFree
    /\ db' = Committed(db, m_best_block_index)
    /\ call' = [call EXCEPT !.pc = IF @ = "rewind" THEN "write" ELSE "none"]
    /\ UNCHANGED <<tip, flushed, queue, memory, file, sync, reader, halted, counts>>

CallbackWriteBlock ==
    /\ Running /\ call.pc = "write"
    /\ IF MayWrite(call.block)
       THEN WriteBlock(call.block) /\ call' = [call EXCEPT !.pc = "written"] /\ UNCHANGED halted
       ELSE halted' = "fatal" /\ UNCHANGED <<disk, m_next_filter_pos, call>>
    /\ UNCHANGED <<tip, flushed, queue, m_synced, m_best_block_index, m_interrupt, sync,
                   reader, counts>>

CallbackSetBest ==
    /\ Running /\ call.pc = "written"
    /\ m_best_block_index' = call.block
    /\ call' = [call EXCEPT !.pc = "none"]
    /\ UNCHANGED <<tip, flushed, queue, m_synced, m_next_filter_pos, m_interrupt, disk, sync,
                   reader, halted, counts>>

Callback == BeginCallback \/ CallbackCommit \/ CallbackWriteBlock \/ CallbackSetBest

-----------------------------------------------------------------------------
(* The reader *)

BlockUntilSynced ==
    /\ Running /\ MainLockFree /\ reader.pc # "waiting" /\ m_synced /\ reads < MaxReads
    /\ reads' = reads + 1
    /\ IF GetAncestor(m_best_block_index, Height[tip]) = tip
       THEN reader' = [pc |-> "true", block |-> tip] /\ UNCHANGED queue
       ELSE /\ reader' = [pc |-> "waiting", block |-> tip]
            /\ queue' = Append(queue, [kind |-> "sync", block |-> tip])
    /\ UNCHANGED <<tip, flushed, memory, disk, sync, call, halted, tipChanges, flushes,
                   restarts>>

-----------------------------------------------------------------------------
(* Stopping and starting *)

Interrupt ==
    /\ Running /\ ~m_interrupt /\ restarts < MaxRestarts
    /\ EarlyInterrupts \/ sync.pindex # NoBlock
    /\ m_interrupt' = TRUE
    /\ UNCHANGED <<tip, flushed, queue, m_synced, m_best_block_index, m_next_filter_pos, disk,
                   sync, call, reader, halted, counts>>

\* A clean shutdown has flushed the chain and emptied the queue and joined the
\* thread; a crash leaves what is on disk.
MayStop ==
    \/ m_interrupt /\ queue = <<>> /\ call.pc = "none" /\ sync.pc = "ended" /\ flushed = tip
    \/ Crashes

\* Start, Init.
Restart ==
    LET best == IF db.locator = NoBlock THEN NoBlock
                ELSE LastCommonAncestor(db.locator, flushed)
    IN  /\ restarts < MaxRestarts /\ MayStop
        /\ restarts' = restarts + 1
        /\ tip' = flushed /\ queue' = <<>> /\ halted' = "no" /\ m_interrupt' = FALSE
        /\ m_next_filter_pos' = db.pos
        /\ m_best_block_index' = best /\ m_synced' = (best = flushed)
        /\ sync' = [pc |-> IF best = flushed THEN "ended" ELSE "loop", pindex |-> best,
                     wrote |-> FALSE]
        /\ call' = [pc |-> "none", block |-> NoBlock]
        /\ reader' = [pc |-> "none", block |-> NoBlock]
        /\ UNCHANGED <<flushed, disk, tipChanges, flushes, reads>>

Next ==
    \/ \E b \in Block : ActivateChain(b)
    \/ FlushChain \/ ThreadSync \/ Callback \/ BlockUntilSynced \/ Interrupt \/ Restart

\* Both threads of the index run whenever they can.
Fairness == WF_vars(ThreadSync) /\ WF_vars(Callback)

Spec == Init /\ [][Next]_vars /\ Fairness

-----------------------------------------------------------------------------
(* Properties *)

\* The types of the index's state; a hash entry is a filter of its own block, and the
\* committed file position is never past m_next_filter_pos.
TypeOK ==
    /\ {tip, flushed} \subseteq Block
    /\ m_synced \in BOOLEAN /\ m_interrupt \in BOOLEAN
    /\ m_best_block_index \in Block \cup {NoBlock} /\ m_next_filter_pos \in Nat
    /\ \A h \in Heights : db.height[h].block \in Block \cup {NoBlock}
    /\ \A b \in Block : db.hash[b].block \in {b, NoBlock}
    /\ db.locator \in Block \cup {NoBlock} /\ db.pos \in 0..m_next_filter_pos
    /\ halted \in {"no", "assert", "fatal"}

\* Once the index is synced, every block of the chain that ends in the best block
\* has its own filter, at whatever point the sync thread handed over and however
\* old the callbacks that were still queued; and when no callback is left, that chain
\* reaches the tip of the active one: no block is lost between ThreadSync and
\* BlockConnected.  The state is well typed throughout.
CompleteToBest ==
    /\ TypeOK
    /\ m_synced /\ m_best_block_index # NoBlock
          => \A b \in Ancestors[m_best_block_index] : Lookup(b) = b
    /\ m_synced /\ Running /\ queue = <<>> /\ call.pc = "none"
          => tip \in Ancestors[m_best_block_index]

\* The comment in BlockFilterIndex::Rewind: filters of disconnected blocks can
\* "still" be found "when the height index entries are overwritten".  It is so
\* within one run of the node: Init goes back to the fork without a Rewind.
FoundAfterReorg ==
    restarts = 0 => \A p \in DOMAIN file : Lookup(file[p]) = file[p]

\* A caller to whom BlockUntilSyncedToCurrentChain answers true finds the tip
\* that was active when it asked.
ReaderFindsTip == reader.pc = "true" => Lookup(reader.block) = reader.block

\* WriteBlock always finds the previous block's entry below: the index never
\* asks the node to shut down.
NeverFatal == halted # "fatal"

\* ThreadSync comes to an end and the callbacks catch up with the chain.
EventuallySynced == <>[](Running => (m_synced /\ tip \in Ancestors[m_best_block_index])
                                    \/ m_interrupt)

\* The assertion in BaseIndex::Rewind, current_tip == m_best_block_index.
RewindAssertion == halted # "assert"
=============================================================================
