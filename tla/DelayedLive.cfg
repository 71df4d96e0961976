SPECIFICATION FairSpec
CONSTANTS
    Actions = {a1, a2}
    Mods = {m1}
    NoMod = NoMod
    Hooks = {"EngineTick"}
    DefaultHook = "EngineTick"
    Delays = {0, 2}
    UnlockedMake = FALSE
    MaxHandle = 2
    MaxCalls = 3
    MaxDepth = 1
PROPERTIES
    OneShotEnds
    LoopKeepsRunning
