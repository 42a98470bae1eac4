SPECIFICATION Spec
CONSTANTS
    Worker = {w1, w2}
    Controller = {m1, m2}
    NoThread = NoThread
    Batch <- MCBatch
    nBatchSize = 2
    MaxSessions = 2
    MaxAdds = 2
INVARIANTS
    VerdictExact
    WorkersAwake
PROPERTY
    WaitReturns
CHECK_DEADLOCK FALSE
