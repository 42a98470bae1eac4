SPECIFICATION Spec
CONSTANTS
    G = G
    A1 = A1
    A2 = A2
    A3 = A3
    A4 = A4
    A5 = A5
    B2 = B2
    B3 = B3
    A6 = A6
    A7 = A7
    b2 = b2
    b4 = b4
    taproot = taproot
    mweb = mweb
    Block = {G, A1, A2, A3, A4, A5, A6, A7, B2, B3}
    Genesis = G
    NoBlock = NoBlock
    Parent <- MCParent
    Deployment = {taproot, mweb}
    vDeployments <- MCvDeployments
    Bit = {b2, b4}
    Period = 2
    Threshold = 2
    MedianTimeSpan = 3
    MinBIP9WarningHeight = 1
    Times <- MCTimes
    Versions <- MCVersions
INVARIANTS
    CacheExact
    ActiveExactly
    ReportExact
