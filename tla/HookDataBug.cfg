SPECIFICATION Spec
CONSTANTS
    Mods = {m1}
    NoMod = NoMod
    MaxHooks = 1
    MaxDepth = 1
INVARIANTS
    DataOutlivesCallbacks
CHECK_DEADLOCK FALSE
