CONSTANTS
    o1 = o1
    o2 = o2
    c1 = c1
    c2 = c2
    burn = burn
    h1 = h1
    h2 = h2
    OutPoint = {o1, o2}
    Coin = {c1, c2, burn}
    Unspendable = {burn}
    NoCoin = NoCoin
    NoEntry = NoEntry
    Hash = {h1, h2}
    NullHash = NullHash
SPECIFICATION Spec
INVARIANTS TypeOK CacheFlagsSound NoLogicError
PROPERTY ImplementsStore
