SPECIFICATION Spec
CONSTANTS
    Mods = {m1, m2}
    Addresses = {p, q}
    MaxActions = 0
    MaxListeners = 2
    MaxObjects = 2
    MaxDepth = 2
SYMMETRY Symmetry
INVARIANTS
    TypeOK
    CancelledIsErased
PROPERTIES
    NotifiedOfTheObject
CHECK_DEADLOCK FALSE
