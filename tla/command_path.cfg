SPECIFICATION FairSpec
CONSTANTS
    Producers = {ui, host}
    Capacity = 2
    Host = host
    Items <- Commands
    None = None
    MaxPushes = 3
    BlockSizes = {2}
    MaxChunk = 1
    MaxPerBlock = 2
    Horizon = 4

PROPERTIES ImplementsFifo OnTime EveryCommandRuns
