SPECIFICATION FairSpec
CONSTANTS
    Nodes = {n1}
    Plugins = {a}
    MaxRestarts = 1
    Quota = 2
    RingCap = 1
    MaxLoads = 2
    MaxSpawns = 3
    None = None
    Fallback = Fallback
INVARIANTS QuotaExact
PROPERTIES SupervisionSettles
