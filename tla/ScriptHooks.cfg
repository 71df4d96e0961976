SPECIFICATION Spec
CONSTANTS
    Mods = {m1, m2}
    NoMod = NoMod
    MaxHooks = 2
    MaxDepth = 3
SYMMETRY Symmetry
INVARIANTS
    TypeOK
    EntriesHaveData
    ScheduledAreRemoved
    PostFollowsPre
PROPERTIES
    IteratorsStand
CHECK_DEADLOCK FALSE
