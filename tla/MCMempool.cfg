SPECIFICATION Spec
CONSTANTS
    tT = tT
    tM = tM
    tC = tC
    tG = tG
    tR = tR
    k1 = k1
    k2 = k2
    k3 = k3
    tX = tX
    Tx <- MCTx
    Coin <- MCCoin
    Inputs <- MCInputs
    MwebOutput <- MCMwebOutput
    HasKernel <- MCHasKernel
    MwebOnly <- MCMwebOnly
    Fee <- MCFee
    Size <- MCSize
    MinHeight <- MCMinHeight
    Replaceable <- MCReplaceable
    LimitAncestors = 4
    LimitDescendants = 3
    LimitUsage = 4
    LimitDisconnected = 3
    IncrementalFee = 1000
    UnseenKernels = FALSE
    ChainedKernels = FALSE
    MaxHeight = 3
    MaxBlockTxs = 2
    MaxReorgs = 1
    MaxPrioritised = 1
    Delta = 6
INVARIANTS  LinksExact TotalsExact InputsAvailable
CHECK_DEADLOCK FALSE
