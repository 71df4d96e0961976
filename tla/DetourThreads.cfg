SPECIFICATION Spec
CONSTANTS
    Callbacks = {c1, c2}
    Threads = {t1, t2}
    Collector = Collector
    NoThread = NoThread
    NoCallback = NoCallback
    Options <- EachOption
    MaxDepth = 1
SYMMETRY Symmetry
INVARIANTS
    TypeOK
    ValidAreListed
    RemovedIsQuiet
    DirtyCoversInvalid
PROPERTIES
    ReadonlySeesVerdict
    ImplementsContract
