SPECIFICATION FairSpec
CONSTANTS
    Mods = {m1, m2}
    Addresses = {p}
    MaxActions = 2
    MaxListeners = 0
    MaxObjects = 0
    MaxDepth = 2
INVARIANTS
    ActionsConserved
    ClosedOnlyIfTaken
    ActionsInOrder
PROPERTIES
    ActionsServed
CHECK_DEADLOCK FALSE
