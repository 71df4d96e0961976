SPECIFICATION Spec
CONSTANTS
    Actions = {a1, a2}
    Mods = {m1}
    NoMod = NoMod
    Hooks = {"EngineTick", "ProcessEvent"}
    DefaultHook = "ProcessEvent"
    Delays = {0, 1}
    UnlockedMake = TRUE
    MaxHandle = 3
    MaxCalls = 3
    MaxDepth = 3
SYMMETRY Symmetry
INVARIANTS
    QueuesHoldLiveActions
    PendingIsDrained
