----------------------------- MODULE VersionBits -----------------------------
(***************************************************************************)
(* The version bits deployments of src/versionbits.cpp over a tree of      *)
(* headers with competing branches, with the caches that validation.cpp    *)
(* keeps for the deployments (versionbitscache) and for the warnings about *)
(* unknown rules (warningcache).  Headers arrive while blocks of any       *)
(* branch are asked about in any order; the answers are compared with a    *)
(* definition that knows no cache.                                         *)
(*                                                                         *)
(* nVersion is the set of the bits a block signals, empty for a version    *)
(* without VERSIONBITS_TOP_BITS.                                           *)
(***************************************************************************)
EXTENDS Ancestry, FiniteSets

CONSTANTS
    Deployment,           \* Consensus::DeploymentPos
    vDeployments,         \* [Deployment -> BIP9Deployment]
    Bit,                  \* the version bits UpdateTip warns about
    Period,               \* nMinerConfirmationWindow
    Threshold,            \* nRuleChangeActivationThreshold
    MedianTimeSpan,       \* nMedianTimeSpan
    MinBIP9WarningHeight,
    Times,                \* the timestamps a header may carry: [Block -> SUBSET Nat]
    Versions              \* the signals a header may carry: [Block -> SUBSET SUBSET Bit]

ALWAYS_ACTIVE == -1

NEVER_ACTIVE == -2

NO_TIMEOUT == 2147483647

ASSUME VersionBitsAssumption ==
    /\ Period \in Nat \ {0} /\ Threshold \in 1..Period /\ MedianTimeSpan \in Nat \ {0}
    /\ \A d \in Deployment : vDeployments[d].bit \in Bit
    /\ Deployment \cap Bit = {}

VARIABLES
    nTime,      \* the timestamp of every header in the block index
    nVersion,   \* and the bits it signals
    cache       \* versionbitscache and warningcache: [Checker -> a map from blocks to states]

vars == <<nTime, nVersion, cache>>

\* A VersionBitsConditionChecker for every deployment and a
\* WarningBitsConditionChecker for every bit.
Checker == Deployment \cup Bit

State == {"DEFINED", "STARTED", "LOCKED_IN", "ACTIVE", "FAILED"}

Known == DOMAIN nTime

Params(c) ==
    IF c \in Deployment THEN vDeployments[c]
    ELSE [bit |-> c, nStartTime |-> 0, nTimeout |-> NO_TIMEOUT,
          nStartHeight |-> 0, nTimeoutHeight |-> NO_TIMEOUT]

-----------------------------------------------------------------------------
(* The walk over the periods.                                              *)

\* CBlockIndex::GetMedianTimePast: element n / 2 of the n sorted timestamps.
GetMedianTimePast(b) ==
    LET span == {a \in Ancestors[b] : Height[a] > Height[b] - MedianTimeSpan}
        half == Cardinality(span) \div 2
    IN  CHOOSE t \in {nTime[a] : a \in span} :
            /\ Cardinality({a \in span : nTime[a] < t}) <= half
            /\ Cardinality({a \in span : nTime[a] <= t}) > half

fHeightBased(p) == p.nStartTime = 0 /\ p.nTimeout = 0

HasBegun(p, b) ==
    IF fHeightBased(p) THEN Height[b] + 1 >= p.nStartHeight
    ELSE GetMedianTimePast(b) >= p.nStartTime

HasEnded(p, b) ==
    IF fHeightBased(p) THEN Height[b] + 1 >= p.nTimeoutHeight
    ELSE GetMedianTimePast(b) >= p.nTimeout

\* The parent of the first block of the period of the block after b.
PeriodParent(b) ==
    IF b = NoBlock THEN NoBlock
    ELSE GetAncestor(b, Height[b] - ((Height[b] + 1) % Period))

Back(b) == GetAncestor(b, Height[b] - Period)

PeriodBlocks(b) == {a \in Ancestors[b] : Height[a] > Height[b] - Period}

\* Faulty: a deployment is active without a period in between.
Transition_NoLockedIn(p, count, state, b) ==
    CASE state = "DEFINED" /\ HasBegun(p, b) -> "STARTED"
      [] state = "STARTED" /\ count >= Threshold -> "ACTIVE"
      [] state = "STARTED" /\ count < Threshold /\ HasEnded(p, b) ->
             IF fHeightBased(p) THEN "ACTIVE" ELSE "FAILED"
      [] OTHER -> state

\* One turn of the loop that walks forward: the state after the period ending in b, of
\* which count blocks met the condition.
Transition(p, count, state, b) ==
    CASE state = "DEFINED" /\ HasBegun(p, b) -> "STARTED"
      [] state = "STARTED" /\ count >= Threshold -> "LOCKED_IN"
      [] state = "STARTED" /\ count < Threshold /\ HasEnded(p, b) ->
             IF fHeightBased(p) THEN "LOCKED_IN" ELSE "FAILED"
      [] state = "LOCKED_IN" -> "ACTIVE"
      [] OTHER -> state

\* Where the walk backwards stops, and enters DEFINED into the cache.
Stops(p, b) == b = NoBlock \/ ~HasBegun(p, b)

\* GetStateFor for every block of the set asked, one after the other: the state of
\* each period, and the cache that is left.  A cached period ends the walk; Condition
\* holds for the blocks in signalling.
GetStateFor(c, signalling, asked) ==
    LET p == Params(c)
        state[b \in Known \cup {NoBlock}] ==
            IF b \in DOMAIN cache[c] THEN cache[c][b]
            ELSE IF Stops(p, b) THEN "DEFINED"
            ELSE Transition(p, Cardinality(PeriodBlocks(b) \cap signalling), state[Back(b)], b)
        walk[b \in Known \cup {NoBlock}] ==
            {b} \cup (IF b \in DOMAIN cache[c] \/ Stops(p, b) THEN {} ELSE walk[Back(b)])
        special == p.nStartTime \in {ALWAYS_ACTIVE, NEVER_ACTIVE}
    IN  [state |-> [b \in asked |->
                       CASE p.nStartTime = ALWAYS_ACTIVE -> "ACTIVE"
                         [] p.nStartTime = NEVER_ACTIVE -> "FAILED"
                         [] OTHER -> state[PeriodParent(b)]],
         cache |-> IF special THEN cache[c]
                   ELSE [b \in DOMAIN cache[c] \cup UNION {walk[PeriodParent(b)] : b \in asked} |->
                            state[b]]]

\* VersionBitsConditionChecker::Condition.
Signals(d, b) == vDeployments[d].bit \in nVersion[b]

VersionBits(d, asked) == GetStateFor(d, {b \in Known : Signals(d, b)}, asked)

\* The bits that a block after b is expected to signal.
ComputeBlockVersion(b) ==
    {vDeployments[d].bit :
        d \in {e \in Deployment : VersionBits(e, {b}).state[b] \in {"STARTED", "LOCKED_IN"}}}

\* WarningBitsConditionChecker::Condition.
Unknown(bit, b) ==
    /\ Height[b] >= MinBIP9WarningHeight
    /\ bit \in nVersion[b]
    /\ bit \notin ComputeBlockVersion(Prev(b))

Warning(bit, asked) == GetStateFor(bit, {b \in Known : Unknown(bit, b)}, asked)

-----------------------------------------------------------------------------
(* What the node does with them.                                           *)

Init ==
    /\ nTime \in [{Genesis} -> Times[Genesis]]
    /\ nVersion \in [{Genesis} -> Versions[Genesis]]
    /\ cache = [c \in Checker |-> [b \in {} |-> "DEFINED"]]

\* Faulty: only times before the first header are refused.
TimeOk_AfterGenesis(b, t) == t > nTime[Genesis]

\* ContextualCheckBlockHeader: time-too-old.
TimeOk(b, t) == t > GetMedianTimePast(Parent[b])

\* AcceptBlockHeader of a header whose parent is known.
AcceptBlockHeader(b, t, v) ==
    /\ b \in Block \ Known /\ Prev(b) \in Known
    /\ TimeOk(b, t)
    /\ nTime' = [a \in Known \cup {b} |-> IF a = b THEN t ELSE nTime[a]]
    /\ nVersion' = [a \in Known \cup {b} |-> IF a = b THEN v ELSE nVersion[a]]
    /\ UNCHANGED cache

\* VersionBitsState for the block after b: by GetBlockScriptFlags, IsMWEBEnabled,
\* getblocktemplate and getblockchaininfo.  The last also asks for the height since
\* when, which walks over periods that the first answer has left in the cache.
VersionBitsState(d, b) ==
    /\ b \in Known \cup {NoBlock}
    /\ cache' = [cache EXCEPT ![d] = VersionBits(d, {b}).cache]
    /\ UNCHANGED <<nTime, nVersion>>

\* UpdateTip after the initial download: a warning state for every bit, and the
\* expected version of the last hundred blocks (all of them, here), which are also
\* the ones the warning's condition asks about.
UpdateTip(b) ==
    /\ b \in Known
    /\ cache' = [c \in Checker |->
                    IF c \in Bit THEN Warning(c, {b}).cache
                    ELSE VersionBits(c, {Prev(a) : a \in Ancestors[b]}).cache]
    /\ UNCHANGED <<nTime, nVersion>>

\* UnloadBlockIndex, after which the same headers are loaded again.
UnloadBlockIndex ==
    /\ cache' = [c \in Checker |-> [b \in {} |-> "DEFINED"]]
    /\ UNCHANGED <<nTime, nVersion>>

Next ==
    \/ \E b \in Block : \E t \in Times[b], v \in Versions[b] : AcceptBlockHeader(b, t, v)
    \/ \E d \in Deployment, b \in Block \cup {NoBlock} : VersionBitsState(d, b)
    \/ \E b \in Block : UpdateTip(b)
    \/ UnloadBlockIndex

Spec == Init /\ [][Next]_vars

-----------------------------------------------------------------------------
(* What getblockchaininfo reports of a deployment, with b as the tip.      *)

\* Faulty: periods in the same state are not followed back.
GetStateSinceHeightFor_FirstPeriod(d, b) ==
    IF VersionBits(d, {b}).state[b] = "DEFINED" THEN 0 ELSE Height[PeriodParent(b)] + 1

\* GetStateSinceHeightFor.
GetStateSinceHeightFor(d, b) ==
    LET initialState == VersionBits(d, {b}).state[b]
        since[a \in Known] ==
            IF Back(a) # NoBlock /\ VersionBits(d, {Back(a)}).state[Back(a)] = initialState
            THEN since[Back(a)] ELSE a
    IN  IF \/ vDeployments[d].nStartTime \in {ALWAYS_ACTIVE, NEVER_ACTIVE}
           \/ initialState = "DEFINED"
        THEN 0
        ELSE Height[since[PeriodParent(b)]] + 1

\* GetStateStatisticsFor, which follows the pointer PeriodParent(b).
GetStateStatisticsFor(d, b) ==
    LET elapsed == Height[b] - Height[PeriodParent(b)]
        count == Cardinality({a \in Ancestors[b] :
                                 Height[a] > Height[PeriodParent(b)] /\ Signals(d, a)})
    IN  [elapsed |-> elapsed, count |-> count, possible |-> Period - Threshold >= elapsed - count]

-----------------------------------------------------------------------------
(* Properties.                                                             *)

\* Caches hold states for null or for the last block of a period, as the comment on
\* ThresholdConditionCache says, and only for headers of the index.
TypeOK ==
    /\ Genesis \in Known /\ Known \subseteq Block
    /\ DOMAIN nVersion = Known
    /\ DOMAIN cache = Checker
    /\ \A c \in Checker :
          /\ DOMAIN cache[c] \subseteq {NoBlock} \cup {b \in Known : (Height[b] + 1) % Period = 0}
          /\ \A b \in DOMAIN cache[c] : cache[c][b] \in State

\* The state of the block after b by going through the blocks one at a time from
\* Genesis, without cache and without the shortcut for periods before the start.
Uncached(c, Condition(_)) ==
    LET p == Params(c)
        state[b \in Known] ==
            LET before == IF b = Genesis THEN "DEFINED" ELSE state[Parent[b]]
            IN  IF (Height[b] + 1) % Period # 0 THEN before
                ELSE Transition(p, Cardinality({a \in PeriodBlocks(b) : Condition(a)}), before, b)
    IN  state

UncachedDeployment == [d \in Deployment |-> Uncached(d, LAMBDA b : Signals(d, b))]

UncachedWarning(states) ==
    [bit \in Bit |->
        Uncached(bit,
            LAMBDA b :
                /\ Height[b] >= MinBIP9WarningHeight
                /\ bit \in nVersion[b]
                /\ b # Genesis =>
                      \A d \in Deployment :
                          vDeployments[d].bit = bit =>
                              states[d][Parent[b]] \notin {"STARTED", "LOCKED_IN"})]

\* Whatever branches were asked about before, and in whatever order, a cache holds
\* what the blocks of the branch themselves say (GetStateFor), for the deployments and
\* for the warnings.  The shortcut for periods before the start is covered: it needs
\* the median time never to fall along a branch.  The caches are well typed.
CacheExact ==
    LET deployment == UncachedDeployment
        warning == UncachedWarning(deployment)
    IN  /\ TypeOK
        /\ \A c \in Checker : \A b \in DOMAIN cache[c] :
              /\ b = NoBlock => cache[c][b] = "DEFINED"
              /\ b # NoBlock =>
                    cache[c][b] = IF c \in Deployment THEN deployment[c][b] ELSE warning[c][b]

\* When the rules of a deployment apply to the block after b (GetBlockScriptFlags,
\* IsMWEBEnabled), in terms of the branch alone: a period e that ended at least one
\* whole period earlier, and began after a period by whose end s the deployment had
\* started, had enough signals (or, by height, reached the timeout), and no period
\* between them had made the deployment fail.
ActiveExactly ==
    \A d \in Deployment : vDeployments[d].nStartTime >= 0 =>
        LET p == vDeployments[d]
            answers == VersionBits(d, Known).state
            enough(e) == Cardinality({a \in PeriodBlocks(e) : Signals(d, a)}) >= Threshold
        IN  \A b \in Known :
                LET ends == {e \in Ancestors[b] : (Height[e] + 1) % Period = 0}
                IN  (answers[b] = "ACTIVE") <=>
                        \E s, e \in ends :
                            /\ HasBegun(p, s) /\ Height[s] < Height[e]
                            /\ \E l \in ends : Height[l] > Height[e]
                            /\ enough(e) \/ (fHeightBased(p) /\ HasEnded(p, e))
                            /\ fHeightBased(p) \/
                               \A f \in ends : (Height[s] < Height[f] /\ Height[f] < Height[e]
                                                   /\ HasBegun(p, Back(f)))
                                   => enough(f) \/ ~HasEnded(p, f)

\* The height that getblockchaininfo reports as "since" (GetStateSinceHeightFor) is
\* that of the first block of the branch in the state it reports.
SinceHeightExact ==
    \A d \in Deployment : vDeployments[d].nStartTime >= 0 =>
        LET states == UncachedDeployment[d]
        IN  \A b \in Known :
                GetStateSinceHeightFor(d, b) =
                    IF states[b] = "DEFINED" THEN 0
                    ELSE 1 + Height[CHOOSE a \in Ancestors[b] :
                              /\ \A c \in Ancestors[b] :
                                    Height[c] >= Height[a] => states[c] = states[b]
                              /\ Height[a] > 0 => states[Parent[a]] # states[b]]

\* The statistics getblockchaininfo reports while a deployment is STARTED: the pointer
\* they follow is never null, and a deployment reported as no longer possible in this
\* period does not have enough signals at its end.
StatisticsSound ==
    \A d \in Deployment :
        LET answers == VersionBits(d, Known).state
        IN  \A b \in Known : answers[b] = "STARTED" =>
                /\ PeriodParent(b) # NoBlock
                /\ \A e \in Known :
                      (/\ b \in PeriodBlocks(e) /\ (Height[e] + 1) % Period = 0
                       /\ PeriodParent(b) # b
                       /\ Cardinality({a \in PeriodBlocks(e) : Signals(d, a)}) >= Threshold)
                      => GetStateStatisticsFor(d, b).possible

\* What getblockchaininfo says of a deployment agrees with the branch it is asked
\* about: the height from GetStateSinceHeightFor and the numbers from
\* GetStateStatisticsFor.
ReportExact == SinceHeightExact /\ StatisticsSound
=============================================================================
