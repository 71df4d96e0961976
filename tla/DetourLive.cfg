SPECIFICATION FairSpec
CONSTANTS
    Callbacks = {c1}
    Threads = {t1, t2}
    Collector = Collector
    NoThread = NoThread
    NoCallback = NoCallback
    Options <- TwoOptions
    MaxDepth = 2
INVARIANTS
    ExecutorsCounted
    OnceRunsOnce
PROPERTIES
    RemovalReturns
    GarbageIsCollected
