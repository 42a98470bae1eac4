SPECIFICATION Spec
CONSTANTS
    G = G
    A1 = A1
    A2 = A2
    B1 = B1
    B2 = B2
    Block = {G, A1, A2, B1, B2}
    Genesis = G
    NoBlock = NoBlock
    Parent <- MCParent
    MaxTipChanges = 2
    MaxFlushes = 1
    MaxRestarts = 1
    MaxReads = 1
    Crashes = FALSE
    EarlyInterrupts = FALSE
INVARIANT
    RewindAssertion
