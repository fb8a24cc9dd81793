SPECIFICATION FairSpec
CONSTANTS
    Capacity = 3
    Items = {x, y}
    None = None
    MaxPushes = 4
INVARIANTS NoRace PeekIsNextPop
PROPERTIES ImplementsFifo Delivers
