SPECIFICATION SessionSpec
CONSTANTS
    MaxNodes = 10
    MaxChannels = 3
    MaxBuffers = 20
    Reserved = 4
INVARIANTS StripsReachTheBus NothingLeaks OneWriterPerBuffer LimiterInChain
PROPERTIES ReconcileReaches
