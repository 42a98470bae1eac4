SPECIFICATION FairSpec
CONSTANTS
    G = G
    S1 = S1
    A2 = A2
    B2 = B2
    B3 = B3
    out1 = out1
    out2 = out2
    out3 = out3
    Block <- MCBlock
    Genesis = G
    NoBlock = NoBlock
    Parent <- MCParent
    Vtx <- MCVtx
    OutPoint <- MCOutPoint
    Coin <- MCCoin
    Unspendable = {}
    NoCoin = NoCoin
    NoEntry = NoEntry
    MwebBlocks <- MCNoMweb
    Prunable = {S1, A2, B2}
    MinBlocksToKeep = 1
    MaxLag = 1
    MaxCrashes = 2
INVARIANTS
    CoinsMatchBestBlock
    NamedStateIsComplete
    
    FlushResumesTransition

    
