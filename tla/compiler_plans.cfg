SPECIFICATION FairSpec
CONSTANTS
    NumNodes = 3
    Buffers = {b1, b2, b3}
    NoSuchBuffer = NoSuchBuffer
    MaxChannels = 3
    Common = {b1, b2}
    Latencies = {0, 1, 2}
    Inputs <- AllGraphs
INVARIANTS StagesHazardFree ProducersRunFirst LoopsAreRefused IslandsAreComponents InputsAligned
PROPERTIES BuildsStagedPlan Terminates
