SPECIFICATION FairSpec
CONSTANTS
    Threads = {conductor, worker, scanner}
    Ticker = conductor
    Ids = {i1, i2}
    Samples = {s1}
    NoSample = NoSample
    Addrs = {a1, a2, a3}
    Free = Free
    NoThread = NoThread
    NoAddr = NoAddr
    NoView = NoView
CHECK_DEADLOCK FALSE
INVARIANTS NoUseAfterFree
PROPERTIES ImplementsSampleMap Reclaims
