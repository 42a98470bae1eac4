SPECIFICATION Spec
CONSTANTS
    G = G
    A1 = A1
    A2 = A2
    A3 = A3
    B1 = B1
    B2 = B2
    B3 = B3
    C2 = C2
    Block = {G, A1, A2, B1, B2, B3}
    Genesis = G
    NoBlock = NoBlock
    Parent <- MCParent
    Proof <- MCProof
    Addr <- MCAddr
    BadBody = {}
    Bad = {}
    Mutated = {}
    MinimumChainWork = 0
    MinBlocksToKeep = 1
    Invalidated = {}
    Reconsidered = {}
    Precious = {}
    Prunable = {A1, B1, B2}
    MaxCommands = 2
    MaxRestarts = 0
    MinSequenceId <- MCMinSequenceId
INVARIANTS
    CheckBlockIndex
    TipHasMostWork
CHECK_DEADLOCK FALSE
