SPECIFICATION FairSpec
CONSTANTS
    G = G
    A1 = A1
    A2 = A2
    A3 = A3
    B1 = B1
    B2 = B2
    B3 = B3
    C2 = C2
    Block = {G, A1, A2, A3, C2}
    Genesis = G
    NoBlock = NoBlock
    Parent <- MCParent
    Proof <- MCProof
    Addr <- MCAddr
    BadBody = {C2}
    Bad = {A3}
    Mutated = {}
    MinimumChainWork = 0
    MinBlocksToKeep = 1
    Invalidated = {A1}
    Reconsidered = {}
    Precious = {}
    Prunable = {A1, A2}
    MaxCommands = 3
    MaxRestarts = 1
    MinSequenceId <- MCMinSequenceId
INVARIANTS
    CheckBlockIndex
PROPERTY
    ActivationReturns
CHECK_DEADLOCK FALSE
