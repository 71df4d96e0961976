SPECIFICATION Spec
CONSTANTS
    Actions = {a1, a2, a3}
    Mods = {m1}
    NoMod = NoMod
    Hooks = {"EngineTick"}
    DefaultHook = "EngineTick"
    Delays = {0, 1}
    UnlockedMake = FALSE
    MaxHandle = 3
    MaxCalls = 4
    MaxDepth = 1
SYMMETRY Symmetry
INVARIANTS
    TypeOK
    UniqueHandles
    ReadyPositionsStable
    NoReleasedCallback
    NotLostBeforeRunning
    OneShotRunsOnce
