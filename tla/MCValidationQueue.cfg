SPECIFICATION Spec
CONSTANTS
    Service = {t1, t2}
    Producer = {p1}
    Main = main
    Subscriber = {wallet, index}
    NoEvent = NoEvent
    MaxSignals = 2
    MaxRequests = 3
    MaxEntries = 2
INVARIANTS
    CountExact
    ReceivedWithoutGap
PROPERTIES
    ImplementsCallbackQueue
    QueueDrains
    FlushedAtShutdown
CHECK_DEADLOCK FALSE
