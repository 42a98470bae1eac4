SPECIFICATION Spec
CONSTANTS
    p1 = p1
    p2 = p2
    p3 = p3
    hashA = hashA
    hashB = hashB
    None = None
    Peer <- MCPeer
    TxHash <- MCTxHash
    Preferred <- MCPreferred
    Relay <- MCRelay
    Salted <- MCSalted
    MAX_PEER_TX_ANNOUNCEMENTS = 1
    MAX_PEER_TX_REQUEST_IN_FLIGHT = 1
    NONPREF_PEER_TX_DELAY = 1
    TXID_RELAY_DELAY = 0
    OVERLOADED_PEER_TX_DELAY = 1
    GETDATA_TX_INTERVAL = 1
    MaxClock = 1
    MaxInvs = 3
    MaxBackward = 1
INVARIANTS SanityCheck PostGetRequestableSanityCheck
PROPERTY ImplementsTracker
