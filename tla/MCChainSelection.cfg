SPECIFICATION Spec
CONSTANTS
    G = G
    A1 = A1
    A2 = A2
    A3 = A3
    B1 = B1
    B2 = B2
    B3 = B3
    C2 = C2
    Block = {G, A1, A2, B1, B2, C2}
    Genesis = G
    NoBlock = NoBlock
    Parent <- MCParent
    Proof <- MCProof
    Addr <- MCAddr
    BadBody = {}
    Bad = {B2}
    Mutated = {C2}
    MinimumChainWork = 0
    MinBlocksToKeep = 1
    Invalidated = {A1, B2}
    Reconsidered = {B2}
    Precious = {A2, B2}
    Prunable = {}
    MaxCommands = 2
    MaxRestarts = 1
    MinSequenceId <- MCMinSequenceId
INVARIANTS
    CheckBlockIndex
    ActiveChainValid
    TipHasMostWork
PROPERTY
    NeverBackward
CHECK_DEADLOCK FALSE
