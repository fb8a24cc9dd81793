SPECIFICATION FairSpec
CONSTANTS
    Workers = {w1, w2}
    NumNodes = 2
    RingCap = 1
    NoJob = NoJob
    MaxStages = 2
INVARIANTS NoJobOutlivesItsStage FaultedStaysOut
PROPERTIES EachAcceptedRunsOnce StagesEnd PoolStops
CHECK_DEADLOCK FALSE
